---- MODULE Spec2Model ----
(***************************************************************************)
(* Model of the day-scoring pipeline of scripts/data.js: the writers       *)
(* saveMatrixCell, saveComment, logCustomIncident and setTheme, the        *)
(* aggregator recalculateDayTotals and the audit helper, running as        *)
(* asynchronous calls against one School, one Plan and one Day document    *)
(* of the document store.  Every await of the source is one step, so the   *)
(* steps of calls in flight interleave freely.                             *)
(*                                                                         *)
(* JavaScript values are written as tokens: the numbers 0, 1, 2 as "0",    *)
(* "1", "2", the booleans as "true" and "false", null as "<null>" and a    *)
(* missing field (undefined) as "<absent>".                                *)
(***************************************************************************)
EXTENDS Integers, Sequences, FiniteSets, TLC

\* ------------------------------------------------------------------------
\* Bounds of the model
\* ------------------------------------------------------------------------

\* number of pipeline calls issued in one behaviour
MaxCalls == 2

CallIds == 1..MaxCalls

\* ------------------------------------------------------------------------
\* Values
\* ------------------------------------------------------------------------

Absent == "<absent>"

Null == "<null>"


PeriodIds == {"P1", "P2"}

GoalIds == {"G1", "G2"}

Cells == PeriodIds \X GoalIds

\* the cell writes callers make: period, goal and value
CellWrites == {<<"P1", "G1", "2">>, <<"P1", "G1", "0">>, <<"P2", "G2", "true">>}

Subjects == {"art"}

\* the comments callers save: role and text
CommentWrites == {<<"teacher", "ok">>, <<"art", "">>}

Notes == {"", "n"}

\* the values Date.now() returns: two reads may return the same millisecond,
\* a later one, or an earlier one when the clock has been set back
Times == {0, 1}

Buttons == {[id |-> "btn_1", label |-> "Great Job!", colorHex |-> "#4CAF50"]}

Sources == {"teacher"}

Themes == {[mode |-> "dark"]}

\* audit contexts handed to the writers by their callers
Ctxs == {[actedBy |-> "u1", asRole |-> "teacher", asUserId |-> "u1"]}

\* Number(value) of the aggregator
Number(v) ==
  CASE v = "0" -> 0
    [] v = "1" -> 1
    [] v = "2" -> 2
    [] v = "3" -> 3
    [] v = "true" -> 1
    [] v = "false" -> 0
    [] OTHER -> 0

\* truthiness of a value: value ? 1 : 0
Truthy(v) == v \notin {"0", "false", Null, Absent, ""}

\* ------------------------------------------------------------------------
\* Documents of the store
\* ------------------------------------------------------------------------

Schedule == <<[id |-> "P1", am |-> TRUE], [id |-> "P2", am |-> FALSE]>>

GoalList == <<[id |-> "G1", kind |-> "stepper"], [id |-> "G2", kind |-> "checkbox"]>>

\* a Plan document that does not exist
NoPlan == [exists |-> FALSE, planType |-> "", schedule |-> <<>>, goals |-> <<>>]

PlanAMPM ==
  [exists |-> TRUE, planType |-> "PercentageAMPM", schedule |-> Schedule, goals |-> GoalList]

PlanPct ==
  [exists |-> TRUE, planType |-> "Percentage", schedule |-> Schedule, goals |-> GoalList]

\* the Plan documents a behaviour starts with
PlanDocs == {NoPlan, PlanAMPM}

\* a percentage field that is not there
NoPct == -1

\* the time the server puts in place of serverTimestamp(); its value is
\* left open
ServerTimestamp == "<serverTimestamp>"

NoTotals == [pct |-> NoPct, amPct |-> NoPct, pmPct |-> NoPct]

EmptyMatrix == [c \in Cells |-> Absent]

NoComments == [teacher |-> Absent, specials |-> [s \in Subjects |-> Absent]]

\* a Day document that does not exist.  matrix is the nested map field
\* `matrix`; literal holds the top-level fields whose name is the whole
\* string "matrix.<periodId>.<goalId>"
NoDay ==
  [exists |-> FALSE, matrix |-> EmptyMatrix, literal |-> EmptyMatrix,
   totals |-> NoTotals, comments |-> NoComments, incidents |-> <<>>,
   lastModified |-> Absent]

\* seededRandom(seed): the value the generator holds after one more draw
SeededRandom(value) == (value * 9301 + 49297) % 233280

RECURSIVE Draw(_, _)
\* the value of the generator at its k-th draw after it held value; rng()
\* returns it divided by 233280
Draw(value, k) == IF k = 0 THEN value ELSE Draw(SeededRandom(value), k - 1)

\* the values the generator holds when seedDemo comes to the Day; every
\* value from 0 to 233279 is one the generator takes
SeedStates == {3196, 29}

\* a number as the token that stands for it
Token(n) ==
  CASE n = 0 -> "0"
    [] n = 1 -> "1"
    [] n = 2 -> "2"
    [] OTHER -> "3"

\* the Day document seedDemo builds: one draw for every cell, period by
\* period and goal by goal (Math.floor(rng() * 3) for a stepper,
\* rng() > 0.3 for a checkbox), one draw for totals.pct
\* (70 + Math.floor(rng() * 25)) and one for the teacher comment
\* (rng() > 0.5).  The document has no other field
SeedDay(value) ==
  LET cells == Len(Schedule) * Len(GoalList)
  IN [exists |-> TRUE,
      matrix |->
        [c \in Cells |->
           LET i == CHOOSE k \in 1..Len(Schedule) : Schedule[k].id = c[1]
               j == CHOOSE k \in 1..Len(GoalList) : GoalList[k].id = c[2]
               v == Draw(value, (i - 1) * Len(GoalList) + j)
           IN IF GoalList[j].kind = "stepper"
              THEN Token((v * 3) \div 233280)
              ELSE IF v * 10 > 3 * 233280 THEN "true" ELSE "false"],
      literal |-> EmptyMatrix,
      totals |-> [pct |-> 70 + (Draw(value, cells + 1) * 25) \div 233280,
                  amPct |-> 75, pmPct |-> 80],
      comments |->
        [teacher |-> IF Draw(value, cells + 2) * 2 > 233280
                     THEN "Great progress today!" ELSE "",
         specials |-> [s \in Subjects |-> Absent]],
      incidents |-> <<>>, lastModified |-> Absent]

\* the Day documents written by seedDemo
SeededDays == {SeedDay(value) : value \in SeedStates}

\* the Day a behaviour starts with when seedDemo has run before it: the
\* seeded Day without a teacher comment
SeededDay == CHOOSE d \in SeededDays : d.comments.teacher = ""

\* ------------------------------------------------------------------------
\* The aggregator
\* ------------------------------------------------------------------------

ZeroAcc ==
  [totalPoints |-> 0, totalPossible |-> 0, amPoints |-> 0, amPossible |-> 0,
   pmPoints |-> 0, pmPossible |-> 0]

\* a loop body that counts one possible point for a stepper cell
AddCellStepperOfOne(acc, period, goal, matrix) ==
  LET value == IF <<period.id, goal.id>> \in DOMAIN matrix
               THEN matrix[<<period.id, goal.id>>] ELSE Absent
  IN IF value = Absent \/ value = Null THEN acc
     ELSE IF period.am
     THEN [acc EXCEPT !.totalPoints = @ + Number(value), !.totalPossible = @ + 1,
                      !.amPoints = @ + Number(value), !.amPossible = @ + 1]
     ELSE [acc EXCEPT !.totalPoints = @ + Number(value), !.totalPossible = @ + 1,
                      !.pmPoints = @ + Number(value), !.pmPossible = @ + 1]

\* the body of the inner loop for one period and one goal
AddCell(acc, period, goal, matrix) ==
  LET value == IF <<period.id, goal.id>> \in DOMAIN matrix
               THEN matrix[<<period.id, goal.id>>] ELSE Absent
  IN IF value = Absent \/ value = Null THEN acc
     ELSE IF goal.kind = "stepper" THEN
       IF period.am
       THEN [acc EXCEPT !.totalPoints = @ + Number(value), !.totalPossible = @ + 2,
                        !.amPoints = @ + Number(value), !.amPossible = @ + 2]
       ELSE [acc EXCEPT !.totalPoints = @ + Number(value), !.totalPossible = @ + 2,
                        !.pmPoints = @ + Number(value), !.pmPossible = @ + 2]
     ELSE IF goal.kind = "checkbox" THEN
       IF period.am
       THEN [acc EXCEPT !.totalPoints = @ + (IF Truthy(value) THEN 1 ELSE 0),
                        !.totalPossible = @ + 1,
                        !.amPoints = @ + (IF Truthy(value) THEN 1 ELSE 0),
                        !.amPossible = @ + 1]
       ELSE [acc EXCEPT !.totalPoints = @ + (IF Truthy(value) THEN 1 ELSE 0),
                        !.totalPossible = @ + 1,
                        !.pmPoints = @ + (IF Truthy(value) THEN 1 ELSE 0),
                        !.pmPossible = @ + 1]
     ELSE acc

\* a loop that stops after the first goal
GoalLoopFirstOnly(acc, period, goals, j, matrix) ==
  IF Len(goals) = 0 THEN acc ELSE AddCell(acc, period, goals[1], matrix)

RECURSIVE GoalLoop(_, _, _, _, _)
\* for (const goal of plan.goals), from index j on
GoalLoop(acc, period, goals, j, matrix) ==
  IF j > Len(goals) THEN acc
  ELSE GoalLoop(AddCell(acc, period, goals[j], matrix), period, goals, j + 1, matrix)

RECURSIVE PeriodLoop(_, _, _, _, _)
\* for (const period of plan.schedule), from index i on
PeriodLoop(acc, schedule, goals, i, matrix) ==
  IF i > Len(schedule) THEN acc
  ELSE PeriodLoop(GoalLoop(acc, schedule[i], goals, 1, matrix), schedule, goals, i + 1, matrix)

\* the whole percentages k for which (points / possible) * 100, evaluated in
\* IEEE 754 doubles as the source does, comes out just below k + 0.5 although
\* 100 * points / possible is exactly k + 0.5 (the quotient is rounded
\* before it is multiplied): 29/200, 57/200, 113/200, 23/40, ...  For
\* points <= 2 * possible there are no others.
ShortTies == {14, 28, 56, 57, 100, 101, 102, 103, 125, 126, 127}

\* 100 * points / possible lies exactly halfway between two integers
IsTie(points, possible) == (200 * points) % (2 * possible) = possible

\* Math.round((points / possible) * 100) for possible > 0, else 0.
\* Math.round takes a double to the nearest integer and a double that is
\* exactly halfway up; off the ties the double is within 1e-13 of the exact
\* value, far closer than the exact value is to a halfway point.
Pct(points, possible) ==
  IF possible > 0
  THEN IF IsTie(points, possible) /\ (100 * points) \div possible \in ShortTies
       THEN (100 * points) \div possible
       ELSE (200 * points + possible) \div (2 * possible)
  ELSE 0

\* planType.includes('AMPM')
IncludesAMPM(planType) == planType \in {"PercentageAMPM", "AMPM"}

\* totals whose two halves have changed places
TotalsOfHalvesSwapped(plan, acc) ==
  [pct |-> Pct(acc.totalPoints, acc.totalPossible),
   amPct |-> IF IncludesAMPM(plan.planType)
             THEN Pct(acc.pmPoints, acc.pmPossible) ELSE NoPct,
   pmPct |-> IF IncludesAMPM(plan.planType)
             THEN Pct(acc.amPoints, acc.amPossible) ELSE NoPct]

\* the totals object recalculateDayTotals builds from the sums of the loops
TotalsOf(plan, acc) ==
  [pct |-> Pct(acc.totalPoints, acc.totalPossible),
   amPct |-> IF IncludesAMPM(plan.planType)
             THEN Pct(acc.amPoints, acc.amPossible) ELSE NoPct,
   pmPct |-> IF IncludesAMPM(plan.planType)
             THEN Pct(acc.pmPoints, acc.pmPossible) ELSE NoPct]

\* the totals object recalculateDayTotals builds from a plan and a matrix
ComputeTotals(plan, matrix) ==
  TotalsOf(plan, PeriodLoop(ZeroAcc, plan.schedule, plan.goals, 1, matrix))

\* ------------------------------------------------------------------------
\* The auth module (auth.js): values
\* ------------------------------------------------------------------------

\* the accounts of the school: u1 is a teacher, u2 an administrator
Users == {"u1", "u2"}

\* no signed-in user: the listener is called with null
NoUser == Null

\* currentClaims = null
NullClaims == [isNull |-> TRUE, roles |-> <<>>, schoolId |-> ""]

\* tokenResult.claims of each account
TokenClaims(u) ==
  [isNull |-> FALSE,
   roles |-> IF u = "u2" THEN <<"admin">> ELSE <<"teacher">>,
   schoolId |-> "s1"]

\* imitationState = null, and localStorage without the item 'imitation'
NoImitation == [targetUid |-> Null, asRole |-> Null]

\* a stored item that JSON.parse rejects
CorruptItem == [targetUid |-> "<corrupt>", asRole |-> "<corrupt>"]

\* the arguments startImitate is called with
Imitations == {[targetUid |-> "u1", asRole |-> "teacher"]}

\* the last message written to the console by the module, and the last
\* event it dispatched on window; none on a freshly loaded page
NoMessage == ""

NoEvent == "none"

\* window.location: the guarded page that loaded the module, the login
\* page guardRoute sends the browser to, or another page of the site
ThisPage == "page"

LoginPage == "/login.html"

\* the urls navigate is called with
Urls == {LoginPage, "/index.html"}

\* the requiredRoles guardRoute is called with
RequiredRoles == {<<>>, <<"admin">>, <<"teacher", "admin">>, <<"counselor">>}

\* staff = null: no staff profile was found
NoProfile == [exists |-> FALSE, schoolId |-> Absent, name |-> Absent]

\* snap.data() of a staff document, as far as a page reads it
StaffProfile(doc) ==
  IF doc.exists
  THEN [exists |-> TRUE, schoolId |-> doc.schoolId, name |-> doc.name]
  ELSE NoProfile

\* _schoolCtx = null
NoSchoolCtx ==
  [isNull |-> TRUE, schoolId |-> "", user |-> NoUser, claims |-> NullClaims,
   staff |-> NoProfile]

\* the context object { schoolId, user, claims, staff }
SchoolCtx(schoolId, user, claims, staff) ==
  [isNull |-> FALSE, schoolId |-> schoolId, user |-> user, claims |-> claims,
   staff |-> staff]

\* a getSchoolContext call: a call that is awaiting the staff profile
\* holds the user, the claims and the schoolId it read before the await, a
\* call that has returned the context it returned
NoCtxCall ==
  [status |-> "none", user |-> NoUser, claims |-> NullClaims, schoolId |-> "",
   returned |-> NoSchoolCtx]

\* defaultSchoolId = 'school_001': the school whose staff collection the
\* model holds
DefaultSchoolId == "s1"

\* the largest number of getSchoolContext calls on a page
MaxCtxCalls == 2

\* the largest number of guardRoute calls on a page
MaxGuardCalls == 2

\* the largest number of sign-ins, sign-outs and page loads in a session
MaxAuthOps == 2

\* claims?.roles?.includes('admin')
HasAdmin(claims) ==
  /\ ~claims.isNull
  /\ \E i \in 1..Len(claims.roles) : claims.roles[i] = "admin"

\* claims?.roles?.[0] || 'unknown'
FirstRole(claims) ==
  IF claims.isNull \/ Len(claims.roles) = 0 THEN "unknown" ELSE claims.roles[1]

\* the module after it has been evaluated with Firebase holding user u and
\* localStorage holding item: the listener is registered and Firebase is
\* about to call it with the user it holds
AuthLoaded(u, item, ops) ==
  [fbUser |-> u, events |-> <<u>>, pending |-> <<>>,
   currentUser |-> NoUser, currentClaims |-> NullClaims, authReady |-> FALSE,
   imitationState |-> NoImitation, stored |-> item, ops |-> ops,
   console |-> NoMessage, lastEvent |-> NoEvent,
   appReady |-> FALSE, guards |-> <<>>, microtasks |-> <<>>, location |-> ThisPage,
   schoolCtx |-> NoSchoolCtx, ctxCalls |-> <<>>]

\* getAuditContext() with the memory cache a
GetAuditContextCollapsed(a) ==
  [actedBy |-> a.currentUser,
   asRole |-> IF a.imitationState # NoImitation THEN a.imitationState.asRole
              ELSE FirstRole(a.currentClaims),
   asUserId |-> a.currentUser]

\* getAuditContext() with the memory cache a; the caller has checked that a
\* user is signed in (user.uid throws on null)
GetAuditContext(a) ==
  IF a.imitationState # NoImitation
  THEN [actedBy |-> a.currentUser, asRole |-> a.imitationState.asRole,
        asUserId |-> a.imitationState.targetUid]
  ELSE [actedBy |-> a.currentUser, asRole |-> FirstRole(a.currentClaims),
        asUserId |-> a.currentUser]

\* userRoles = currentClaims?.roles || [];
\* requiredRoles.some(role => userRoles.includes(role))
HasRequiredRole(required, claims) ==
  \E i \in 1..Len(required) :
    \E j \in 1..Len(claims.roles) : claims.roles[j] = required[i]

\* a guardRoute call that has reached `await requireAuth()`: requireAuth
\* awaits authReadyPromise and guardRoute awaits requireAuth
GuardCall(required) == [required |-> required, at |-> "authReadyPromise"]

\* the guardRoute calls whose requireAuth awaits authReadyPromise
AwaitingAuthReady(a) ==
  SelectSeq([i \in 1..Len(a.guards) |-> i],
            LAMBDA i : a.guards[i].at = "authReadyPromise")

\* authReady = true; authReadyResolve(): the continuations of the
\* requireAuth calls that await the promise are queued in the order of the
\* calls, behind the continuations already queued
AuthReadyResolved(a) ==
  [a EXCEPT !.authReady = TRUE,
            !.microtasks = IF a.authReady THEN @ ELSE @ \o AwaitingAuthReady(a),
            !.guards = IF a.authReady THEN @
                       ELSE [i \in 1..Len(@) |->
                               IF @[i].at = "authReadyPromise"
                               THEN [@[i] EXCEPT !.at = "requireAuth"] ELSE @[i]]]

\* ------------------------------------------------------------------------
\* The Cloud Functions (functions/index.js): values
\* ------------------------------------------------------------------------

\* the school of the path schools/{schoolId}/staff/{uid}
PathSchoolId == "s1"

\* a roles value: an array of role tags, a value that is not an array, or
\* no value
RolesArray(items) == [kind |-> "array", items |-> items]
RolesString == [kind |-> "string", items |-> <<>>]
NoRoles == [kind |-> "absent", items |-> <<>>]

\* context.auth of a call: none, or the caller's uid and token; a token
\* without custom claims has no roles
CallerContexts ==
  {[authed |-> FALSE, uid |-> "", roles |-> NoRoles],
   [authed |-> TRUE, uid |-> "u3", roles |-> NoRoles],
   [authed |-> TRUE, uid |-> "u3", roles |-> RolesArray(<<>>)],
   [authed |-> TRUE, uid |-> "u1", roles |-> RolesArray(<<"teacher">>)],
   [authed |-> TRUE, uid |-> "u2", roles |-> RolesArray(<<"admin">>)]}

\* the data a call of setCustomClaims carries
ClaimsData ==
  {[uid |-> "u1", roles |-> RolesArray(<<"admin">>), schoolId |-> "s1"],
   [uid |-> "u1", roles |-> RolesArray(<<"teacher">>), schoolId |-> "s1"],
   [uid |-> Absent, roles |-> RolesArray(<<"admin">>), schoolId |-> "s1"],
   [uid |-> "u1", roles |-> RolesString, schoolId |-> "s1"],
   [uid |-> "u1", roles |-> NoRoles, schoolId |-> "s1"],
   [uid |-> "u1", roles |-> RolesArray(<<"admin">>), schoolId |-> Absent]}

\* a user without custom claims
NoCustomClaims == [set |-> FALSE, roles |-> NoRoles, schoolId |-> Absent]

\* the object setCustomUserClaims stores: {roles, schoolId}
CustomClaims(roles, schoolId) == [set |-> TRUE, roles |-> roles, schoolId |-> schoolId]

\* a Staff document that does not exist
NoStaff ==
  [exists |-> FALSE, roles |-> NoRoles, schoolId |-> Absent, name |-> Absent,
   claimsUpdatedAt |-> Absent]

\* the Staff documents a client writes: roles and schoolId are fields a
\* document may lack
StaffDocs ==
  {[exists |-> TRUE, roles |-> r, schoolId |-> s, name |-> n, claimsUpdatedAt |-> Absent] :
     r \in {NoRoles, RolesArray(<<"teacher">>), RolesArray(<<"admin">>)},
     s \in {Absent, "s1", "s2"}, n \in {"A", "B"}}

\* the largest number of calls of setCustomClaims and of Staff writes by
\* clients
MaxFnCalls == 2
MaxStaffWrites == 2

FnIds == 1..MaxFnCalls

\* a call of setCustomClaims that has not been made
IdleFn ==
  [status |-> "idle", stmt |-> "", caller |-> [authed |-> FALSE, uid |-> "", roles |-> NoRoles],
   data |-> [uid |-> Absent, roles |-> NoRoles, schoolId |-> Absent],
   error |-> "", effects |-> <<>>]

\* the Firebase project before any call: firstStaff is the Staff document
\* of u1
CloudStart(firstStaff) ==
  [claims |-> [u \in Users |-> NoCustomClaims],
   staff |-> [u \in Users |-> IF u = "u1" THEN firstStaff ELSE NoStaff],
   triggers |-> <<>>, fn |-> [k \in FnIds |-> IdleFn], writes |-> 0,
   lastSync |-> "none"]

\* callerClaims.roles?.includes('admin')
IsAdmin(caller) ==
  /\ caller.roles.kind = "array"
  /\ \E i \in 1..Len(caller.roles.items) : caller.roles.items[i] = "admin"

\* !callerClaims.roles
FirstTimeSetup(caller) == caller.roles.kind = "absent"

\* a validation that does not look at schoolId
ValidDataNoSchoolId(data) ==
  /\ data.uid # Absent
  /\ data.roles.kind = "array"

\* the negation of !uid || !Array.isArray(roles) || !schoolId
ValidData(data) ==
  /\ data.uid # Absent
  /\ data.roles.kind = "array"
  /\ data.schoolId # Absent

\* the code the checks of setCustomClaims throw for a call, "" when they
\* pass
CheckCall(caller, data) ==
  IF ~caller.authed THEN "unauthenticated"
  ELSE IF ~IsAdmin(caller) /\ ~FirstTimeSetup(caller) THEN "permission-denied"
  ELSE IF ~ValidData(data) THEN "invalid-argument"
  ELSE ""

\* syncStaffClaims: roles = newData.roles || []
RolesOrEmpty(doc) == IF doc.roles.kind = "absent" THEN RolesArray(<<>>) ELSE doc.roles

\* syncStaffClaims: JSON.stringify(oldData.roles) !== JSON.stringify(roles);
\* a missing roles field stringifies to undefined, which differs from "[]"
RolesChanged(before, after) == before.roles # RolesOrEmpty(after)

\* syncStaffClaims: oldData.schoolId !== schoolId, schoolId being the
\* parameter of the path
SchoolIdChanged(before) == before.schoolId # PathSchoolId

\* syncStaffClaims goes on to setCustomUserClaims for this change
SyncWrites(before, after) ==
  /\ after.exists
  /\ ~(~RolesChanged(before, after) /\ ~SchoolIdChanged(before) /\ before.exists)

\* ------------------------------------------------------------------------
\* State
\* ------------------------------------------------------------------------

VARIABLES
  plan,      \* the Plan document schools/{schoolId}/plans/{planId}
  day,       \* the Day document .../days/{dayKey}
  school,    \* the School document schools/{schoolId}
  auditLog,  \* the collection schools/{schoolId}/audit_logs, in append order
  calls,     \* the calls of the writers: arguments, position and locals
  auth,      \* Firebase Auth, localStorage and the memory cache of auth.js
  cloud      \* custom claims, Staff documents and the Cloud Functions' runs

vars == <<plan, day, school, auditLog, calls, auth, cloud>>

\* saveMatrixCell with the audit entry written before the recalculation
SaveMatrixCellStepsAuditFirst == <<"setCell", "audit", "recalculateDayTotals">>

\* the awaited statements of each writer, in program order
SaveMatrixCellSteps == <<"setCell", "recalculateDayTotals", "audit">>

SaveCommentSteps == <<"updateComment", "audit">>

LogCustomIncidentSteps == <<"getDay", "setIncidents", "audit">>

SetThemeSteps == <<"updateTheme">>

SeedDemoSteps == <<"commit">>

Steps(op) ==
  CASE op = "saveMatrixCell" -> SaveMatrixCellSteps
    [] op = "saveComment" -> SaveCommentSteps
    [] op = "logCustomIncident" -> LogCustomIncidentSteps
    [] op = "setTheme" -> SetThemeSteps
    [] op = "seedDemo" -> SeedDemoSteps
    [] OTHER -> <<>>

NoButton == [id |-> "", label |-> "", colorHex |-> ""]

NoCtx == [actedBy |-> "", asRole |-> "", asUserId |-> ""]

NoIncident ==
  [id |-> <<0, 0>>, label |-> "", colorHex |-> "", note |-> Null, ts |-> 0, source |-> ""]

\* a call that has not been made.  effects lists the store writes the call
\* has performed and error is the error an awaited store operation threw.
IdleCall ==
  [op |-> "none", status |-> "idle", stmt |-> 0, sub |-> "",
   periodId |-> "", goalId |-> "", value |-> Absent,
   role |-> "", text |-> "", button |-> NoButton, note |-> "", source |-> "",
   theme |-> [mode |-> ""], ctx |-> NoCtx,
   planDoc |-> NoPlan, matrix |-> EmptyMatrix, acc |-> ZeroAcc,
   currentIncidents |-> <<>>, incident |-> NoIncident, batch |-> NoDay,
   effects |-> <<>>, error |-> ""]

Running(c) == calls[c].status = "running"

\* the statement call c is awaiting
Cur(c) ==
  IF Running(c) /\ calls[c].stmt \in 1..Len(Steps(calls[c].op))
  THEN Steps(calls[c].op)[calls[c].stmt] ELSE "none"

\* calls are issued in the order of their ids
CanStart(c) ==
  /\ calls[c].status = "idle"
  /\ IF c = 1 THEN TRUE ELSE calls[c - 1].status # "idle"

AnyRunning == \E d \in CallIds : Running(d)

\* the calls after call c has been issued as record r
Issue(c, r) == [calls EXCEPT ![c] = [r EXCEPT !.status = "running", !.stmt = 1]]

\* the call has settled: its position and the locals of
\* recalculateDayTotals are gone
Settle(call, status) ==
  [call EXCEPT !.status = status, !.stmt = 0, !.sub = "", !.planDoc = NoPlan,
               !.matrix = EmptyMatrix, !.acc = ZeroAcc, !.batch = NoDay]

\* the awaited statement has completed: go on to the next one, or resolve
Advance(call) ==
  IF call.stmt + 1 > Len(Steps(call.op))
  THEN Settle([call EXCEPT !.stmt = @ + 1], "done")
  ELSE [call EXCEPT !.stmt = @ + 1, !.sub = ""]

\* a writer that catches the error and resolves
RejectSwallowed(call) == Settle(call, "done")

\* a writer that skips the statement that threw and goes on with the rest
RejectResumed(call) == Advance(call)

\* the awaited statement has thrown: no writer catches, so the async
\* function rejects
Reject(call) == Settle(call, "rejected")

Throw(call, error) == Reject([call EXCEPT !.error = error])

Did(call, effect) == [call EXCEPT !.effects = Append(@, effect)]

Init ==
  /\ plan \in PlanDocs
  /\ day \in {NoDay, SeededDay}
  /\ school = [exists |-> TRUE, theme |-> [mode |-> "light"]]
  /\ auditLog = <<>>
  /\ calls = [c \in CallIds |-> IdleCall]
  /\ auth = AuthLoaded(NoUser, NoImitation, 0)
  /\ cloud = CloudStart(NoStaff)

\* ------------------------------------------------------------------------
\* Store primitives
\* ------------------------------------------------------------------------

\* setDoc(dayRef, {'matrix.<p>.<g>': value, lastModified}, {merge: true}):
\* set() takes each key as the name of one top-level field, dots included,
\* and creates the document when it is absent
SetDocCell(d, p, g, v) ==
  [d EXCEPT !.exists = TRUE, !.literal[<<p, g>>] = v,
            !.lastModified = ServerTimestamp]

\* updateDoc(dayRef, {'comments.teacher': text, lastModified}) and
\* updateDoc(dayRef, {'comments.specials.<role>': text, lastModified}):
\* update() takes a dotted key as a path into nested maps
UpdateDocComment(d, role, text) ==
  IF role = "teacher"
  THEN [d EXCEPT !.comments.teacher = text, !.lastModified = ServerTimestamp]
  ELSE [d EXCEPT !.comments.specials[role] = text, !.lastModified = ServerTimestamp]

\* an atomic append to the stored list (arrayUnion) instead of writing back
\* the list that was read
SetDocIncidentsAtomic(d, currentIncidents, incident) ==
  [d EXCEPT !.exists = TRUE, !.incidents = Append(d.incidents, incident),
            !.lastModified = ServerTimestamp]

\* a write that stores the new incident alone
SetDocIncidentsLastOnly(d, currentIncidents, incident) ==
  [d EXCEPT !.exists = TRUE, !.incidents = <<incident>>,
            !.lastModified = ServerTimestamp]

\* a write that puts the new incident in front of the list that was read
SetDocIncidentsInFront(d, currentIncidents, incident) ==
  [d EXCEPT !.exists = TRUE, !.incidents = <<incident>> \o currentIncidents,
            !.lastModified = ServerTimestamp]

\* setDoc(dayRef, {incidents: [...currentIncidents, incident], lastModified},
\* {merge: true})
SetDocIncidents(d, currentIncidents, incident) ==
  [d EXCEPT !.exists = TRUE, !.incidents = Append(currentIncidents, incident),
            !.lastModified = ServerTimestamp]

\* a totals write that merges pct into the stored totals and leaves the
\* other percentages as they were
UpdateDocTotalsPctOnly(d, totals) == [d EXCEPT !.totals.pct = totals.pct]

\* updateDoc(dayRef, {totals})
UpdateDocTotals(d, totals) == [d EXCEPT !.totals = totals]

\* audit tags with saveComment tagged as a cell update
AuditActionSwapped(op) ==
  CASE op = "saveMatrixCell" -> "matrix_cell_update"
    [] op = "saveComment" -> "matrix_cell_update"
    [] op = "logCustomIncident" -> "incident_log"
    [] OTHER -> "none"

\* the entry a writer hands to audit()
AuditAction(op) ==
  CASE op = "saveMatrixCell" -> "matrix_cell_update"
    [] op = "saveComment" -> "comment_save"
    [] op = "logCustomIncident" -> "incident_log"
    [] OTHER -> "none"

\* details that carry the text of a comment
AuditDetailsWithText(call) ==
  CASE call.op = "saveMatrixCell" ->
         [periodId |-> call.periodId, goalId |-> call.goalId, value |-> call.value]
    [] call.op = "saveComment" ->
         [role |-> call.role, textLength |-> Len(call.text), text |-> call.text]
    [] call.op = "logCustomIncident" ->
         [label |-> call.button.label, source |-> call.source,
          hasNote |-> Truthy(call.note)]
    [] OTHER -> [none |-> TRUE]

\* the details object a writer hands to audit()
AuditDetails(call) ==
  CASE call.op = "saveMatrixCell" ->
         [periodId |-> call.periodId, goalId |-> call.goalId, value |-> call.value]
    [] call.op = "saveComment" ->
         [role |-> call.role, textLength |-> Len(call.text)]
    [] call.op = "logCustomIncident" ->
         [label |-> call.button.label, source |-> call.source,
          hasNote |-> Truthy(call.note)]
    [] OTHER -> [none |-> TRUE]

\* addDoc(collection(.., 'audit_logs'), {ts: serverTimestamp(), ...entry})
AuditEntry(call) ==
  [ts |-> ServerTimestamp, actedBy |-> call.ctx.actedBy, asRole |-> call.ctx.asRole,
   asUserId |-> call.ctx.asUserId, action |-> AuditAction(call.op),
   target |-> "plan1/day1", details |-> AuditDetails(call)]

\* a write to one audit document with a fixed id: the entry takes the place
\* of the one written before
AddDocReplacing(log, entry) ==
  IF log = <<>> THEN <<entry>> ELSE [log EXCEPT ![Len(log)] = entry]

\* addDoc(collection): a new document with a fresh id is added to the
\* collection, the documents already there are not touched
AddDoc(log, entry) == Append(log, entry)

\* ------------------------------------------------------------------------
\* The writers are called
\* ------------------------------------------------------------------------

\* saveMatrixCell(schoolId, planId, dayKey, periodId, goalId, value, ctx)
CallSaveMatrixCell(c, p, g, v, ctx) ==
  /\ CanStart(c)
  /\ calls' = Issue(c, [IdleCall EXCEPT !.op = "saveMatrixCell", !.periodId = p,
                                        !.goalId = g, !.value = v, !.ctx = ctx])
  /\ UNCHANGED <<cloud, auth, plan, day, school, auditLog>>

\* saveComment(schoolId, planId, dayKey, role, text, ctx)
CallSaveComment(c, role, text, ctx) ==
  /\ CanStart(c)
  /\ calls' = Issue(c, [IdleCall EXCEPT !.op = "saveComment", !.role = role,
                                        !.text = text, !.ctx = ctx])
  /\ UNCHANGED <<cloud, auth, plan, day, school, auditLog>>

\* the incident object logCustomIncident builds before its first await.  The
\* clock is read twice, idTime for the id and ts for the time stamp; the
\* random suffix of the id is fresh for every call
NewIncident(c, button, note, source, idTime, ts) ==
  [id |-> <<idTime, c>>, label |-> button.label, colorHex |-> button.colorHex,
   note |-> IF Truthy(note) THEN note ELSE Null, ts |-> ts, source |-> source]

\* logCustomIncident(schoolId, planId, dayKey, button, note, source, ctx)
CallLogCustomIncident(c, button, note, source, ctx) ==
  /\ CanStart(c)
  /\ \E idTime \in Times, ts \in Times :
       calls' = Issue(c, [IdleCall EXCEPT !.op = "logCustomIncident",
                                          !.button = button, !.note = note,
                                          !.source = source, !.ctx = ctx,
                                          !.incident =
                                            NewIncident(c, button, note, source,
                                                        idTime, ts)])
  /\ UNCHANGED <<cloud, auth, plan, day, school, auditLog>>

\* setTheme(schoolId, theme)
CallSetTheme(c, theme) ==
  /\ CanStart(c)
  /\ calls' = Issue(c, [IdleCall EXCEPT !.op = "setTheme", !.theme = theme])
  /\ UNCHANGED <<cloud, auth, plan, day, school, auditLog>>

\* seedDemo(schoolId, options): the batch is built before the only await;
\* value is what the generator seeded with options.seed holds when the loops
\* come to the Day
CallSeedDemo(c, value) ==
  /\ CanStart(c)
  /\ calls' = Issue(c, [IdleCall EXCEPT !.op = "seedDemo", !.batch = SeedDay(value)])
  /\ UNCHANGED <<cloud, auth, plan, day, school, auditLog>>

\* ------------------------------------------------------------------------
\* The awaited statements
\* ------------------------------------------------------------------------

\* saveMatrixCell: await setDoc(dayRef, {...}, {merge: true})
SetCell(c) ==
  /\ Cur(c) = "setCell"
  /\ day' = SetDocCell(day, calls[c].periodId, calls[c].goalId, calls[c].value)
  /\ calls' = [calls EXCEPT ![c] = Advance(Did(@, "setCell"))]
  /\ UNCHANGED <<cloud, auth, plan, school, auditLog>>

\* a recalculateDayTotals that throws when the Plan is missing
RecalcGetPlanThrowing(c) ==
  /\ Cur(c) = "recalculateDayTotals"
  /\ calls[c].sub = ""
  /\ calls' = [calls EXCEPT ![c] =
                 IF plan.exists THEN [@ EXCEPT !.sub = "getDay", !.planDoc = plan]
                 ELSE Throw(@, "not-found")]
  /\ UNCHANGED <<cloud, auth, plan, day, school, auditLog>>

\* recalculateDayTotals: planDoc = await getDoc(planRef);
\* if (!planDoc.exists()) return
RecalcGetPlan(c) ==
  /\ Cur(c) = "recalculateDayTotals"
  /\ calls[c].sub = ""
  /\ calls' = [calls EXCEPT ![c] =
                 IF plan.exists THEN [@ EXCEPT !.sub = "getDay", !.planDoc = plan]
                 ELSE Advance(@)]
  /\ UNCHANGED <<cloud, auth, plan, day, school, auditLog>>

\* recalculateDayTotals: dayDoc = await getDoc(dayRef);
\* if (!dayDoc.exists()) return; matrix = dayData.matrix || {}; then the
\* loops over the schedule and the goals, up to the await of updateDoc
RecalcGetDay(c) ==
  /\ Cur(c) = "recalculateDayTotals"
  /\ calls[c].sub = "getDay"
  /\ calls' = [calls EXCEPT ![c] =
                 IF day.exists
                 THEN [@ EXCEPT !.sub = "updateDoc", !.matrix = day.matrix,
                                !.acc = PeriodLoop(ZeroAcc, calls[c].planDoc.schedule,
                                                   calls[c].planDoc.goals, 1,
                                                   day.matrix)]
                 ELSE Advance(@)]
  /\ UNCHANGED <<cloud, auth, plan, day, school, auditLog>>

\* recalculateDayTotals: await updateDoc(dayRef, {totals});
\* updateDoc throws when the document does not exist
RecalcUpdateTotals(c) ==
  /\ Cur(c) = "recalculateDayTotals"
  /\ calls[c].sub = "updateDoc"
  /\ IF day.exists
     THEN /\ day' = UpdateDocTotals(day, TotalsOf(calls[c].planDoc, calls[c].acc))
          /\ calls' = [calls EXCEPT ![c] = Advance(Did(@, "totals"))]
     ELSE /\ day' = day
          /\ calls' = [calls EXCEPT ![c] = Throw(@, "not-found")]
  /\ UNCHANGED <<cloud, auth, plan, school, auditLog>>

\* saveComment: await updateDoc(dayRef, {...}); updateDoc throws when the
\* document does not exist
UpdateComment(c) ==
  /\ Cur(c) = "updateComment"
  /\ IF day.exists
     THEN /\ day' = UpdateDocComment(day, calls[c].role, calls[c].text)
          /\ calls' = [calls EXCEPT ![c] = Advance(Did(@, "comment"))]
     ELSE /\ day' = day
          /\ calls' = [calls EXCEPT ![c] = Throw(@, "not-found")]
  /\ UNCHANGED <<cloud, auth, plan, school, auditLog>>

\* logCustomIncident: dayDoc = await getDoc(dayRef);
\* currentIncidents = dayDoc.exists() ? (dayDoc.data().incidents || []) : []
LogGetDay(c) ==
  /\ Cur(c) = "getDay"
  /\ calls' = [calls EXCEPT ![c] =
                 Advance([@ EXCEPT !.currentIncidents =
                                     IF day.exists THEN day.incidents ELSE <<>>])]
  /\ UNCHANGED <<cloud, auth, plan, day, school, auditLog>>

\* logCustomIncident: await setDoc(dayRef, {incidents: [...], ...}, {merge: true})
SetIncidents(c) ==
  /\ Cur(c) = "setIncidents"
  /\ day' = SetDocIncidents(day, calls[c].currentIncidents, calls[c].incident)
  /\ calls' = [calls EXCEPT ![c] = Advance(Did(@, "incidents"))]
  /\ UNCHANGED <<cloud, auth, plan, school, auditLog>>

\* setTheme: await updateDoc(schoolRef, {theme})
UpdateTheme(c) ==
  /\ Cur(c) = "updateTheme"
  /\ IF school.exists
     THEN /\ school' = [school EXCEPT !.theme = calls[c].theme]
          /\ calls' = [calls EXCEPT ![c] = Advance(Did(@, "theme"))]
     ELSE /\ school' = school
          /\ calls' = [calls EXCEPT ![c] = Throw(@, "not-found")]
  /\ UNCHANGED <<cloud, auth, plan, day, auditLog>>

\* seedDemo: await batch.commit().  batch.set(planRef, {...}) and
\* batch.set(dayRef, {...}) are written together and each puts its document
\* in the place of the one stored
SeedCommit(c) ==
  /\ Cur(c) = "commit"
  /\ plan' = PlanAMPM
  /\ day' = calls[c].batch
  /\ calls' = [calls EXCEPT ![c] = Advance(Did(@, "seed"))]
  /\ UNCHANGED <<cloud, auth, school, auditLog>>

\* await audit(schoolId, {...ctx, action, target, details})
Audit(c) ==
  /\ Cur(c) = "audit"
  /\ auditLog' = AddDoc(auditLog, AuditEntry(calls[c]))
  /\ calls' = [calls EXCEPT ![c] = Advance(Did(@, "audit"))]
  /\ UNCHANGED <<cloud, auth, plan, day, school>>

\* the store fails the operation call c is awaiting: the operation has no
\* effect and the call is rejected
StoreFails(c) ==
  /\ Running(c)
  /\ calls' = [calls EXCEPT ![c] = Throw(@, "unavailable")]
  /\ UNCHANGED <<cloud, auth, plan, day, school, auditLog>>

Next ==
  \/ \E c \in CallIds, w \in CellWrites, ctx \in Ctxs :
       CallSaveMatrixCell(c, w[1], w[2], w[3], ctx)
  \/ \E c \in CallIds, w \in CommentWrites, ctx \in Ctxs :
       CallSaveComment(c, w[1], w[2], ctx)
  \/ \E c \in CallIds, button \in Buttons, note \in Notes, source \in Sources,
        ctx \in Ctxs :
       CallLogCustomIncident(c, button, note, source, ctx)
  \/ \E c \in CallIds, theme \in Themes : CallSetTheme(c, theme)
  \/ \E c \in CallIds, value \in SeedStates : CallSeedDemo(c, value)
  \/ \E c \in CallIds : SetCell(c)
  \/ \E c \in CallIds : RecalcGetPlan(c)
  \/ \E c \in CallIds : RecalcGetDay(c)
  \/ \E c \in CallIds : RecalcUpdateTotals(c)
  \/ \E c \in CallIds : UpdateComment(c)
  \/ \E c \in CallIds : LogGetDay(c)
  \/ \E c \in CallIds : SetIncidents(c)
  \/ \E c \in CallIds : UpdateTheme(c)
  \/ \E c \in CallIds : SeedCommit(c)
  \/ \E c \in CallIds : Audit(c)
  \/ \E c \in CallIds : StoreFails(c)

Spec == Init /\ [][Next]_vars

\* the same calls made one after the other: a writer is called only when no
\* call is in flight
NextSeq ==
  \/ \E c \in CallIds, w \in CellWrites, ctx \in Ctxs :
       ~AnyRunning /\ CallSaveMatrixCell(c, w[1], w[2], w[3], ctx)
  \/ \E c \in CallIds, w \in CommentWrites, ctx \in Ctxs :
       ~AnyRunning /\ CallSaveComment(c, w[1], w[2], ctx)
  \/ \E c \in CallIds, button \in Buttons, note \in Notes, source \in Sources,
        ctx \in Ctxs :
       ~AnyRunning /\ CallLogCustomIncident(c, button, note, source, ctx)
  \/ \E c \in CallIds, theme \in Themes : ~AnyRunning /\ CallSetTheme(c, theme)
  \/ \E c \in CallIds, value \in SeedStates : ~AnyRunning /\ CallSeedDemo(c, value)
  \/ \E c \in CallIds : SetCell(c)
  \/ \E c \in CallIds : RecalcGetPlan(c)
  \/ \E c \in CallIds : RecalcGetDay(c)
  \/ \E c \in CallIds : RecalcUpdateTotals(c)
  \/ \E c \in CallIds : UpdateComment(c)
  \/ \E c \in CallIds : LogGetDay(c)
  \/ \E c \in CallIds : SetIncidents(c)
  \/ \E c \in CallIds : UpdateTheme(c)
  \/ \E c \in CallIds : SeedCommit(c)
  \/ \E c \in CallIds : Audit(c)
  \/ \E c \in CallIds : StoreFails(c)

SpecSeq == Init /\ [][NextSeq]_vars

\* a logCustomIncident call of an earlier session, as it resolved: the
\* random suffix of its id is none of the suffixes of the calls to come
EarlierCall ==
  Settle(Did(Did([IdleCall EXCEPT
                    !.op = "logCustomIncident",
                    !.button = CHOOSE button \in Buttons : TRUE,
                    !.source = CHOOSE source \in Sources : TRUE,
                    !.ctx = CHOOSE ctx \in Ctxs : TRUE,
                    !.incident = NewIncident(0, CHOOSE button \in Buttons : TRUE, "",
                                             CHOOSE source \in Sources : TRUE, 0, 0)],
                 "incidents"), "audit"), "done")

\* the store after the earlier call completed on a Day that did not exist:
\* the Day holds its incident and the audit log its entry.  Every call of
\* the session starts after that call completed
InitLogged ==
  /\ plan \in PlanDocs
  /\ day = SetDocIncidents(NoDay, <<>>, EarlierCall.incident)
  /\ school = [exists |-> TRUE, theme |-> [mode |-> "light"]]
  /\ auditLog = AddDoc(<<>>, AuditEntry(EarlierCall))
  /\ calls = [c \in CallIds |-> IdleCall]
  /\ auth = AuthLoaded(NoUser, NoImitation, 0)
  /\ cloud = CloudStart(NoStaff)

SpecLogged == InitLogged /\ [][Next]_vars

\* ------------------------------------------------------------------------
\* The auth module (auth.js): sign-in state, imitation and the audit
\* context handed to the writers
\* ------------------------------------------------------------------------

storeVars == <<plan, day, school, auditLog, calls>>

RemoveAt(s, i) == SubSeq(s, 1, i - 1) \o SubSeq(s, i + 1, Len(s))

\* signIn(email, password): Firebase holds user u and calls the listener
SignIn(u) ==
  /\ auth.ops < MaxAuthOps
  /\ auth' = [auth EXCEPT !.fbUser = u, !.events = Append(@, u), !.ops = @ + 1]
  /\ UNCHANGED <<cloud, storeVars>>

\* a stopImitate that leaves the stored item where it is
StopImitatedInMemoryOnly(a) ==
  [a EXCEPT !.imitationState = NoImitation, !.lastEvent = "imitation-stopped"]

\* stopImitate()
StopImitated(a) ==
  [a EXCEPT !.imitationState = NoImitation, !.stored = NoImitation,
            !.lastEvent = "imitation-stopped"]

\* signOutUser(): stopImitate(), then signOut(auth); Firebase calls the
\* listener with null
SignOutUser ==
  /\ auth.ops < MaxAuthOps
  /\ auth' = [StopImitated(auth) EXCEPT !.fbUser = NoUser,
                                        !.events = Append(@, NoUser), !.ops = @ + 1]
  /\ UNCHANGED <<cloud, storeVars>>

\* the page is loaded again: the module is evaluated afresh, Firebase and
\* localStorage keep what they hold
Reload ==
  /\ auth.ops < MaxAuthOps
  /\ auth' = AuthLoaded(auth.fbUser, auth.stored, auth.ops + 1)
  /\ UNCHANGED <<cloud, storeVars>>

\* the listener of onAuthStateChanged is called: currentUser = user, then
\* either the await of getIdTokenResult() or the else branch to its end
ListenerCalled ==
  /\ auth.events # <<>>
  /\ LET user == Head(auth.events)
     IN auth' =
          IF user # NoUser
          THEN [auth EXCEPT !.events = Tail(@), !.currentUser = user,
                            !.pending = Append(@, user)]
          ELSE AuthReadyResolved([auth EXCEPT !.events = Tail(@),
                                              !.currentUser = NoUser,
                                              !.currentClaims = NullClaims,
                                              !.imitationState = NoImitation,
                                              !.stored = NoImitation])
  /\ UNCHANGED <<cloud, storeVars>>

\* getIdTokenResult() of the i-th waiting listener call resolves: the claims
\* of that call's user are cached and the stored imitation is loaded
TokenResolved(i) ==
  /\ i \in 1..Len(auth.pending)
  /\ auth' = AuthReadyResolved([auth EXCEPT
                !.pending = RemoveAt(@, i),
                !.currentClaims = TokenClaims(auth.pending[i]),
                !.imitationState =
                   IF auth.stored = NoImitation THEN @
                   ELSE IF auth.stored = CorruptItem THEN NoImitation
                   ELSE auth.stored,
                !.stored = IF @ = CorruptItem THEN NoImitation ELSE @,
                !.lastEvent =
                   IF auth.stored \in {NoImitation, CorruptItem} THEN @
                   ELSE "imitation-active"])
  /\ UNCHANGED <<cloud, storeVars>>

\* getIdTokenResult() of the i-th waiting listener call rejects
TokenFailed(i) ==
  /\ i \in 1..Len(auth.pending)
  /\ auth' = AuthReadyResolved([auth EXCEPT !.pending = RemoveAt(@, i),
                                            !.console = "[Auth] Failed to get claims",
                                            !.currentClaims = NullClaims])
  /\ UNCHANGED <<cloud, storeVars>>

\* a startImitate that takes the caller's word
StartImitatedUnchecked(a, im) ==
  [a EXCEPT !.imitationState = im, !.stored = im, !.lastEvent = "imitation-active"]

\* startImitate(targetUid, asRole) with the memory cache a
StartImitated(a, im) ==
  IF ~HasAdmin(a.currentClaims)
  THEN [a EXCEPT !.console = "[Auth] Only admins can imitate"]
  ELSE [a EXCEPT !.imitationState = im, !.stored = im,
                 !.lastEvent = "imitation-active"]

\* startImitate(targetUid, asRole)
StartImitate(im) ==
  /\ auth' = StartImitated(auth, im)
  /\ UNCHANGED <<cloud, storeVars>>

\* stopImitate()
StopImitate ==
  /\ auth' = StopImitated(auth)
  /\ UNCHANGED <<cloud, storeVars>>

\* getDoc(doc(db, `schools/${schoolId}/staff/${uid}`))
StaffAt(schoolId, uid) ==
  IF schoolId = PathSchoolId THEN cloud.staff[uid] ELSE NoStaff

\* if (_schoolCtx) return _schoolCtx
Cached(a) == a.schoolCtx

\* getSchoolContext() up to its first await: the cached context is
\* returned; without a user the call throws; otherwise the user, the claims
\* and claims?.schoolId are read and the staff profile is awaited, whether
\* or not an earlier call is still awaiting it
GetSchoolContext ==
  /\ Len(auth.ctxCalls) < MaxCtxCalls
  /\ auth' =
       [auth EXCEPT !.ctxCalls =
          Append(@, IF ~Cached(auth).isNull
                    THEN [NoCtxCall EXCEPT !.status = "returned",
                                           !.returned = Cached(auth)]
                    ELSE IF auth.currentUser = NoUser
                    THEN [NoCtxCall EXCEPT !.status = "threw"]
                    ELSE [NoCtxCall EXCEPT !.status = "reading",
                                           !.user = auth.currentUser,
                                           !.claims = auth.currentClaims,
                                           !.schoolId = auth.currentClaims.schoolId])]
  /\ UNCHANGED <<cloud, storeVars>>

\* getSchoolContext() after the staff profile has been read for call k:
\* with a schoolId in the claims the context is cached with the profile or
\* null; without one the profile of the default school is needed and gives
\* the schoolId (staff.schoolId || defaultSchoolId).  The context takes the
\* place of the cached one and is returned
StaffProfileRead(k) ==
  /\ k \in 1..Len(auth.ctxCalls)
  /\ auth.ctxCalls[k].status = "reading"
  /\ LET call == auth.ctxCalls[k]
         inClaims == Truthy(call.schoolId)
         doc == StaffAt(IF inClaims THEN call.schoolId ELSE DefaultSchoolId, call.user)
         schoolId == IF inClaims THEN call.schoolId
                     ELSE IF Truthy(doc.schoolId) THEN doc.schoolId
                     ELSE DefaultSchoolId
         ctx == SchoolCtx(schoolId, call.user, call.claims, StaffProfile(doc))
     IN auth' =
          IF ~inClaims /\ ~doc.exists
          THEN [auth EXCEPT !.ctxCalls[k] = [NoCtxCall EXCEPT !.status = "threw"]]
          ELSE [auth EXCEPT !.ctxCalls[k] = [NoCtxCall EXCEPT !.status = "returned",
                                                             !.returned = ctx],
                            !.schoolCtx = ctx]
  /\ UNCHANGED <<cloud, storeVars>>

\* the awaited import or getDoc of call k rejects: getSchoolContext rejects
\* and the cache stays as it is
StaffProfileReadFails(k) ==
  /\ k \in 1..Len(auth.ctxCalls)
  /\ auth.ctxCalls[k].status = "reading"
  /\ auth' = [auth EXCEPT !.ctxCalls[k] = [NoCtxCall EXCEPT !.status = "threw"]]
  /\ UNCHANGED <<cloud, storeVars>>

\* clearSchoolContext()
ClearSchoolContext ==
  /\ auth' = [auth EXCEPT !.schoolCtx = NoSchoolCtx]
  /\ UNCHANGED <<cloud, storeVars>>

\* guardRoute(requiredRoles) up to its await: the ready attribute is
\* removed and requireAuth() is called, which awaits authReadyPromise; when
\* the promise is resolved already the continuation of requireAuth is
\* queued at once
GuardRoute(required) ==
  /\ Len(auth.guards) < MaxGuardCalls
  /\ auth' =
       [auth EXCEPT
          !.appReady = FALSE,
          !.guards = Append(@, IF auth.authReady
                               THEN [GuardCall(required) EXCEPT !.at = "requireAuth"]
                               ELSE GuardCall(required)),
          !.microtasks = IF auth.authReady THEN Append(@, Len(auth.guards) + 1)
                         ELSE @]
  /\ UNCHANGED <<cloud, storeVars>>

\* the continuation at the head of the queue is the one of requireAuth:
\* if (!currentUser) throw; return currentUser.  Either way the
\* continuation of the guardRoute call that awaits it is queued
RequireAuthResumed ==
  /\ auth.microtasks # <<>>
  /\ LET k == Head(auth.microtasks)
     IN /\ auth.guards[k].at = "requireAuth"
        /\ auth' = [auth EXCEPT
                      !.microtasks = Append(Tail(@), k),
                      !.guards[k].at = IF auth.currentUser = NoUser
                                       THEN "catch" ELSE "roles"]
  /\ UNCHANGED <<cloud, storeVars>>

\* guardRoute with the memory cache a, after requireAuth has returned: a
\* user without a required role is redirected, otherwise the body gets
\* data-app-ready
RolesChecked(a, required) ==
  IF Len(required) > 0 /\ ~HasRequiredRole(required, a.currentClaims)
  THEN [a EXCEPT !.location = LoginPage,
                 !.console = "[Auth] User lacks required role"]
  ELSE [a EXCEPT !.appReady = TRUE]

\* the continuation at the head of the queue is the one of guardRoute:
\* after requireAuth has thrown the catch redirects, after it has returned
\* the roles are checked; the call returns
GuardRouteResumed ==
  /\ auth.microtasks # <<>>
  /\ LET k == Head(auth.microtasks)
         a == [auth EXCEPT !.microtasks = Tail(@), !.guards[k].at = "returned"]
     IN /\ auth.guards[k].at \in {"roles", "catch"}
        /\ auth' = IF auth.guards[k].at = "catch"
                   THEN [a EXCEPT !.location = LoginPage]
                   ELSE RolesChecked(a, auth.guards[k].required)
  /\ UNCHANGED <<cloud, storeVars>>

\* navigate(url, replace) of scripts/router.js:
\* window.location.replace(url) or window.location.href = url
Navigate(url) ==
  /\ auth.location # url
  /\ auth' = [auth EXCEPT !.location = url]
  /\ UNCHANGED <<cloud, storeVars>>

\* a page calls a writer with ctx = getAuditContext()
PageSaveMatrixCell(c, w) ==
  /\ auth.currentUser # NoUser
  /\ CallSaveMatrixCell(c, w[1], w[2], w[3], GetAuditContext(auth))

PageSaveComment(c, w) ==
  /\ auth.currentUser # NoUser
  /\ CallSaveComment(c, w[1], w[2], GetAuditContext(auth))

PageLogCustomIncident(c, button, note, source) ==
  /\ auth.currentUser # NoUser
  /\ CallLogCustomIncident(c, button, note, source, GetAuditContext(auth))

\* the session makes one call of a writer
PageCallIds == {1}

InitAuth ==
  /\ plan = NoPlan
  /\ day = SeededDay
  /\ school = [exists |-> TRUE, theme |-> [mode |-> "light"]]
  /\ auditLog = <<>>
  /\ calls = [c \in CallIds |-> IdleCall]
  /\ \E u \in Users \cup {NoUser}, item \in Imitations \cup {NoImitation, CorruptItem} :
       auth = AuthLoaded(u, item, 0)
  /\ cloud = CloudStart(NoStaff)

NextAuth ==
  \/ \E u \in Users : SignIn(u)
  \/ SignOutUser
  \/ Reload
  \/ ListenerCalled
  \/ \E i \in 1..MaxAuthOps + 1 : TokenResolved(i)
  \/ \E i \in 1..MaxAuthOps + 1 : TokenFailed(i)
  \/ \E im \in Imitations : StartImitate(im)
  \/ StopImitate
  \/ \E c \in PageCallIds, w \in CellWrites : PageSaveMatrixCell(c, w)
  \/ \E c \in PageCallIds, w \in CommentWrites : PageSaveComment(c, w)
  \/ \E c \in PageCallIds, button \in Buttons, note \in Notes, source \in Sources :
       PageLogCustomIncident(c, button, note, source)
  \/ \E c \in PageCallIds : SetCell(c)
  \/ \E c \in PageCallIds : RecalcGetPlan(c)
  \/ \E c \in PageCallIds : UpdateComment(c)
  \/ \E c \in PageCallIds : LogGetDay(c)
  \/ \E c \in PageCallIds : SetIncidents(c)
  \/ \E c \in PageCallIds : Audit(c)

SpecAuth == InitAuth /\ [][NextAuth]_vars

\* a guarded page: the module is loaded, the page calls guardRoute, and the
\* user signs in and out while the page is open
InitGuard ==
  /\ plan = NoPlan
  /\ day = NoDay
  /\ school = [exists |-> TRUE, theme |-> [mode |-> "light"]]
  /\ auditLog = <<>>
  /\ calls = [c \in CallIds |-> IdleCall]
  /\ \E u \in Users \cup {NoUser} : auth = AuthLoaded(u, NoImitation, 0)
  /\ cloud = CloudStart(NoStaff)

NextGuard ==
  \/ \E u \in Users : SignIn(u)
  \/ SignOutUser
  \/ Reload
  \/ ListenerCalled
  \/ \E i \in 1..MaxAuthOps + 1 : TokenResolved(i)
  \/ \E i \in 1..MaxAuthOps + 1 : TokenFailed(i)
  \/ \E required \in RequiredRoles : GuardRoute(required)
  \/ RequireAuthResumed
  \/ GuardRouteResumed
  \/ \E url \in Urls : Navigate(url)

SpecGuard == InitGuard /\ [][NextGuard]_vars

\* ------------------------------------------------------------------------
\* The aggregator on its own: recalculateDayTotals over plans and matrices
\* ------------------------------------------------------------------------

\* a plan of two stepper goals
PlanSteppers ==
  [exists |-> TRUE, planType |-> "PercentageAMPM", schedule |-> Schedule,
   goals |-> <<[id |-> "G1", kind |-> "stepper"], [id |-> "G2", kind |-> "stepper"]>>]

\* a plan of one checkbox goal
PlanCheckbox ==
  [exists |-> TRUE, planType |-> "Percentage", schedule |-> Schedule,
   goals |-> <<[id |-> "G2", kind |-> "checkbox"]>>]

\* the values a cell of a stored matrix holds
CellValues == {Absent, Null, "0", "1", "2", "3", "true", "false"}

\* the plan seedDemo creates: ten periods, morning and afternoon in
\* turn, two stepper goals and a checkbox goal
DemoSchedule ==
  <<[id |-> "M1", am |-> TRUE], [id |-> "M2", am |-> FALSE],
    [id |-> "T1", am |-> TRUE], [id |-> "T2", am |-> FALSE],
    [id |-> "W1", am |-> TRUE], [id |-> "W2", am |-> FALSE],
    [id |-> "TH1", am |-> TRUE], [id |-> "TH2", am |-> FALSE],
    [id |-> "F1", am |-> TRUE], [id |-> "F2", am |-> FALSE]>>

DemoGoals ==
  <<[id |-> "goal_1", kind |-> "stepper"], [id |-> "goal_2", kind |-> "stepper"],
    [id |-> "goal_3", kind |-> "checkbox"]>>

PlanDemo ==
  [exists |-> TRUE, planType |-> "PercentageAMPM", schedule |-> DemoSchedule,
   goals |-> DemoGoals]

\* the largest number of stepper cells of a demo Day that hold 2, and that
\* hold 1
MaxTwos == 11
MaxOnes == 2

\* a Day of the demo plan in which the stepper cells are recorded and the
\* checkbox cells are not: in schedule order the first twos stepper cells
\* hold 2, the next ones hold 1 and the others 0
DemoMatrix(twos, ones) ==
  [c \in {<<DemoSchedule[i].id, DemoGoals[j].id>> : i \in 1..10, j \in 1..3} |->
     LET i == CHOOSE k \in 1..10 : DemoSchedule[k].id = c[1]
         j == CHOOSE k \in 1..3 : DemoGoals[k].id = c[2]
         n == 2 * (i - 1) + j
     IN IF j = 3 THEN Absent
        ELSE IF n <= twos THEN "2"
        ELSE IF n <= twos + ones THEN "1" ELSE "0"]

\* the plans and matrices recalculateDayTotals is run on
AggInputs ==
  ({PlanAMPM, PlanPct, PlanSteppers, PlanCheckbox} \X [Cells -> CellValues])
  \cup {<<PlanDemo, DemoMatrix(twos, ones)>> : twos \in 0..MaxTwos, ones \in 0..MaxOnes}

\* the one call that sets the recalculation off
AggCallIds == {1}

InitAgg ==
  /\ \E input \in AggInputs :
       /\ plan = input[1]
       /\ day = [NoDay EXCEPT !.exists = TRUE, !.matrix = input[2]]
  /\ school = [exists |-> TRUE, theme |-> [mode |-> "light"]]
  /\ auditLog = <<>>
  /\ calls = [c \in CallIds |-> IdleCall]
  /\ auth = AuthLoaded(NoUser, NoImitation, 0)
  /\ cloud = CloudStart(NoStaff)

NextAgg ==
  \/ \E c \in AggCallIds, ctx \in Ctxs : CallSaveMatrixCell(c, "P1", "G1", "1", ctx)
  \/ \E c \in AggCallIds : SetCell(c)
  \/ \E c \in AggCallIds : RecalcGetPlan(c)
  \/ \E c \in AggCallIds : RecalcGetDay(c)
  \/ \E c \in AggCallIds : RecalcUpdateTotals(c)
  \/ \E c \in AggCallIds : Audit(c)

SpecAgg == InitAgg /\ [][NextAgg]_vars

\* ------------------------------------------------------------------------
\* The Cloud Functions (functions/index.js): setCustomClaims and
\* syncStaffClaims
\* ------------------------------------------------------------------------

\* the change a write of the Staff document of uid hands to the trigger
StaffChange(uid, before, after) == [uid |-> uid, before |-> before, after |-> after]

\* a client creates or rewrites the Staff document of u1; the write
\* triggers syncStaffClaims
StaffWrite(doc) ==
  /\ cloud.writes < MaxStaffWrites
  /\ doc # cloud.staff["u1"]
  /\ cloud' = [cloud EXCEPT
                 !.staff["u1"] = doc,
                 !.triggers = Append(@, StaffChange("u1", cloud.staff["u1"], doc)),
                 !.writes = @ + 1]
  /\ UNCHANGED <<auth, storeVars>>

\* a client deletes the Staff document of u1
StaffDelete ==
  /\ cloud.writes < MaxStaffWrites
  /\ cloud.staff["u1"].exists
  /\ cloud' = [cloud EXCEPT
                 !.staff["u1"] = NoStaff,
                 !.triggers = Append(@, StaffChange("u1", cloud.staff["u1"], NoStaff)),
                 !.writes = @ + 1]
  /\ UNCHANGED <<auth, storeVars>>

\* setCustomClaims(data, context) is called: the checks up to the first
\* await; a check that fails throws its HttpsError
CallSetCustomClaims(k, caller, data) ==
  /\ cloud.fn[k].status = "idle"
  /\ IF k = 1 THEN TRUE ELSE cloud.fn[k - 1].status # "idle"
  /\ cloud' = [cloud EXCEPT
                 !.fn[k] =
                    IF CheckCall(caller, data) = ""
                    THEN [IdleFn EXCEPT !.status = "running", !.stmt = "setClaims",
                                        !.caller = caller, !.data = data]
                    ELSE [IdleFn EXCEPT !.status = "rejected", !.caller = caller,
                                        !.data = data,
                                        !.error = CheckCall(caller, data)]]
  /\ UNCHANGED <<auth, storeVars>>

\* setCustomClaims: await admin.auth().setCustomUserClaims(uid, {roles, schoolId})
SetClaims(k) ==
  /\ cloud.fn[k].status = "running"
  /\ cloud.fn[k].stmt = "setClaims"
  /\ cloud' = [cloud EXCEPT
                 !.claims[cloud.fn[k].data.uid] =
                    CustomClaims(cloud.fn[k].data.roles, cloud.fn[k].data.schoolId),
                 !.fn[k].stmt = "setStaff",
                 !.fn[k].effects = Append(@, "claims")]
  /\ UNCHANGED <<auth, storeVars>>

\* the Staff document after .set({roles, schoolId, claimsUpdatedAt}, {merge: true})
StaffMerged(doc, data) ==
  [doc EXCEPT !.exists = TRUE, !.roles = data.roles, !.schoolId = data.schoolId,
              !.claimsUpdatedAt = ServerTimestamp]

\* setCustomClaims: await the set of the Staff document, then return; the
\* write triggers syncStaffClaims
SetStaff(k) ==
  /\ cloud.fn[k].status = "running"
  /\ cloud.fn[k].stmt = "setStaff"
  /\ LET uid == cloud.fn[k].data.uid
         after == StaffMerged(cloud.staff[uid], cloud.fn[k].data)
     IN cloud' = [cloud EXCEPT
                    !.staff[uid] = after,
                    !.triggers = Append(@, StaffChange(uid, cloud.staff[uid], after)),
                    !.fn[k].status = "done",
                    !.fn[k].stmt = "",
                    !.fn[k].effects = Append(@, "staff")]
  /\ UNCHANGED <<auth, storeVars>>

\* setCustomClaims: the awaited operation throws; the catch throws
\* HttpsError('internal')
AdminFails(k) ==
  /\ cloud.fn[k].status = "running"
  /\ cloud' = [cloud EXCEPT !.fn[k].status = "rejected", !.fn[k].stmt = "",
                            !.fn[k].error = "internal"]
  /\ UNCHANGED <<auth, storeVars>>

\* a run that also stamps the Staff document with the time of the sync:
\* the write is a change of the document and triggers a run
SyncStaffClaimsStamping(i) ==
  /\ i \in 1..Len(cloud.triggers)
  /\ LET ch == cloud.triggers[i]
         after == [cloud.staff[ch.uid] EXCEPT !.exists = TRUE,
                                              !.claimsUpdatedAt = ServerTimestamp]
     IN cloud' =
          [cloud EXCEPT
             !.triggers = Append(RemoveAt(@, i),
                                 StaffChange(ch.uid, cloud.staff[ch.uid], after)),
             !.staff[ch.uid] = after,
             !.claims[ch.uid] = CustomClaims(RolesOrEmpty(ch.after), PathSchoolId),
             !.lastSync = "wrote"]
  /\ UNCHANGED <<auth, storeVars>>

\* syncStaffClaims runs for the i-th waiting change; lastSync tells whether
\* the run called setCustomUserClaims
SyncStaffClaims(i) ==
  /\ i \in 1..Len(cloud.triggers)
  /\ LET ch == cloud.triggers[i]
     IN cloud' =
          IF SyncWrites(ch.before, ch.after)
          THEN [cloud EXCEPT
                  !.triggers = RemoveAt(@, i),
                  !.claims[ch.uid] = CustomClaims(RolesOrEmpty(ch.after), PathSchoolId),
                  !.lastSync = "wrote"]
          ELSE [cloud EXCEPT !.triggers = RemoveAt(@, i), !.lastSync = "skipped"]
  /\ UNCHANGED <<auth, storeVars>>

\* syncStaffClaims: setCustomUserClaims throws; the catch logs and returns
\* null
SyncFails(i) ==
  /\ i \in 1..Len(cloud.triggers)
  /\ SyncWrites(cloud.triggers[i].before, cloud.triggers[i].after)
  /\ cloud' = [cloud EXCEPT !.triggers = RemoveAt(@, i), !.lastSync = "failed"]
  /\ UNCHANGED <<auth, storeVars>>

\* the Staff document of u1 before an administrator has set claims
FirstStaff ==
  [exists |-> TRUE, roles |-> NoRoles, schoolId |-> Absent, name |-> "A",
   claimsUpdatedAt |-> Absent]

InitClaims ==
  /\ plan = NoPlan
  /\ day = NoDay
  /\ school = [exists |-> TRUE, theme |-> [mode |-> "light"]]
  /\ auditLog = <<>>
  /\ calls = [c \in CallIds |-> IdleCall]
  /\ auth = AuthLoaded(NoUser, NoImitation, 0)
  /\ \E doc \in {NoStaff, FirstStaff} : cloud = CloudStart(doc)

\* calls of setCustomClaims, and the runs of syncStaffClaims their Staff
\* writes trigger
NextClaims ==
  \/ \E k \in FnIds, caller \in CallerContexts, data \in ClaimsData :
       CallSetCustomClaims(k, caller, data)
  \/ \E k \in FnIds : SetClaims(k)
  \/ \E k \in FnIds : SetStaff(k)
  \/ \E k \in FnIds : AdminFails(k)
  \/ \E i \in 1..MaxFnCalls : SyncStaffClaims(i)
  \/ \E i \in 1..MaxFnCalls : SyncFails(i)

SpecClaims == InitClaims /\ [][NextClaims]_vars

\* Staff writes by clients, and the runs of syncStaffClaims they trigger
NextSync ==
  \/ \E doc \in StaffDocs : StaffWrite(doc)
  \/ StaffDelete
  \/ \E i \in 1..MaxStaffWrites : SyncStaffClaims(i)
  \/ \E i \in 1..MaxStaffWrites : SyncFails(i)

InitSync ==
  /\ plan = NoPlan
  /\ day = NoDay
  /\ school = [exists |-> TRUE, theme |-> [mode |-> "light"]]
  /\ auditLog = <<>>
  /\ calls = [c \in CallIds |-> IdleCall]
  /\ auth = AuthLoaded(NoUser, NoImitation, 0)
  /\ \E doc \in StaffDocs \cup {NoStaff} : cloud = CloudStart(doc)

SpecSync == InitSync /\ [][NextSync]_vars

\* the Staff document of u1 is created, rewritten and deleted by clients and
\* every run of syncStaffClaims completes without error, the runs in any
\* order
InitConverge ==
  /\ plan = NoPlan
  /\ day = NoDay
  /\ school = [exists |-> TRUE, theme |-> [mode |-> "light"]]
  /\ auditLog = <<>>
  /\ calls = [c \in CallIds |-> IdleCall]
  /\ auth = AuthLoaded(NoUser, NoImitation, 0)
  /\ cloud = CloudStart(NoStaff)

NextConverge ==
  \/ \E doc \in StaffDocs : StaffWrite(doc)
  \/ StaffDelete
  \/ \E i \in 1..MaxStaffWrites : SyncStaffClaims(i)

SpecConverge == InitConverge /\ [][NextConverge]_vars

\* a page that asks for the school context while users sign in and out;
\* the staff collection holds a profile of u1 or none
InitSchool ==
  /\ plan = NoPlan
  /\ day = NoDay
  /\ school = [exists |-> TRUE, theme |-> [mode |-> "light"]]
  /\ auditLog = <<>>
  /\ calls = [c \in CallIds |-> IdleCall]
  /\ \E u \in Users \cup {NoUser} : auth = AuthLoaded(u, NoImitation, 0)
  /\ cloud \in {CloudStart(NoStaff), CloudStart(FirstStaff)}

NextSchool ==
  \/ \E u \in Users : SignIn(u)
  \/ SignOutUser
  \/ Reload
  \/ ListenerCalled
  \/ \E i \in 1..MaxAuthOps + 1 : TokenResolved(i)
  \/ \E i \in 1..MaxAuthOps + 1 : TokenFailed(i)
  \/ GetSchoolContext
  \/ \E k \in 1..MaxCtxCalls : StaffProfileRead(k)
  \/ \E k \in 1..MaxCtxCalls : StaffProfileReadFails(k)
  \/ ClearSchoolContext

SpecSchool == InitSchool /\ [][NextSchool]_vars

\* ------------------------------------------------------------------------
\* Reference definitions for the properties
\* ------------------------------------------------------------------------

RECURSIVE SumOver(_, _)
\* the sum of f over the set S
SumOver(S, f) ==
  IF S = {} THEN 0
  ELSE LET x == CHOOSE y \in S : TRUE IN f[x] + SumOver(S \ {x}, f)

\* the (period, goal) index pairs of a plan whose cell is recorded, of the
\* half of the day half: "all", "am" or "pm"
Recorded(p, m, half) ==
  {ij \in (1..Len(p.schedule)) \X (1..Len(p.goals)) :
     /\ m[<<p.schedule[ij[1]].id, p.goals[ij[2]].id>>] \notin {Absent, Null}
     /\ p.goals[ij[2]].kind \in {"stepper", "checkbox"}
     /\ \/ half = "all"
        \/ half = "am" /\ p.schedule[ij[1]].am
        \/ half = "pm" /\ ~p.schedule[ij[1]].am}

RefEarned(p, m, half) ==
  SumOver(Recorded(p, m, half),
          [ij \in Recorded(p, m, half) |->
             LET v == m[<<p.schedule[ij[1]].id, p.goals[ij[2]].id>>]
             IN IF p.goals[ij[2]].kind = "stepper" THEN Number(v)
                ELSE IF Truthy(v) THEN 1 ELSE 0])

RefPossible(p, m, half) ==
  SumOver(Recorded(p, m, half),
          [ij \in Recorded(p, m, half) |->
             IF p.goals[ij[2]].kind = "stepper" THEN 2 ELSE 1])

\* 100 * earned / possible rounded to the nearest integer, ties up
RefPct(earned, possible) ==
  IF possible = 0 THEN 0
  ELSE CHOOSE n \in 0..200 :
         /\ 2 * possible * n <= 200 * earned + possible
         /\ 200 * earned + possible < 2 * possible * (n + 1)

RefTotals(p, m) ==
  [pct |-> RefPct(RefEarned(p, m, "all"), RefPossible(p, m, "all")),
   amPct |-> IF p.planType = "PercentageAMPM"
             THEN RefPct(RefEarned(p, m, "am"), RefPossible(p, m, "am")) ELSE NoPct,
   pmPct |-> IF p.planType = "PercentageAMPM"
             THEN RefPct(RefEarned(p, m, "pm"), RefPossible(p, m, "pm")) ELSE NoPct]

InList(list, x) == \E i \in 1..Len(list) : list[i] = x

IsOp(c, op) == calls[c].op = op

Done(c) == calls[c].status = "done"

Quiescent == \A c \in CallIds : ~Running(c)

CellOf(c) == <<calls[c].periodId, calls[c].goalId>>

\* the audit entries with a given action tag
Tagged(action) == {i \in 1..Len(auditLog) : auditLog[i].action = action}

\* ------------------------------------------------------------------------
\* C1
\* ------------------------------------------------------------------------

SaveMatrixCellCalls == {c \in CallIds : IsOp(c, "saveMatrixCell")}

\* every saveMatrixCell call made so far completed successfully, and there
\* is one
SuccessfulCellSaves ==
  /\ SaveMatrixCellCalls # {}
  /\ \A c \in SaveMatrixCellCalls : Done(c)

\* seedDemo has put another Day document in the place of the Day after the
\* last saveMatrixCell call (calls that do not overlap run in the order of
\* their ids)
SeededSinceLastSave ==
  \E d \in CallIds :
    /\ IsOp(d, "seedDemo") /\ InList(calls[d].effects, "seed")
    /\ \A c \in SaveMatrixCellCalls : c < d

\* C1: when calls do not overlap (SpecSeq), after saveMatrixCell calls that
\* each completed successfully the stored totals of the Day equal the
\* aggregate recomputed from the Day's matrix field and the schedule and
\* goals of the Plan.  The state is the one the saveMatrixCell calls leave,
\* whatever happened before them: a seedDemo that replaces the Day after the
\* last of them is not part of the sequence.
C1_TotalsMatchRecomputation ==
  (SuccessfulCellSaves /\ plan.exists /\ ~SeededSinceLastSave) =>
    (day.exists /\ day.totals = RefTotals(plan, day.matrix))

\* two sequential saves on a seeded Day whose stored totals were not the
\* aggregate of its matrix
C1_Witness ==
  /\ SuccessfulCellSaves /\ plan.exists
  /\ Cardinality(SaveMatrixCellCalls) >= 2
  /\ day.matrix # EmptyMatrix
  /\ day.totals = [pct |-> 33, amPct |-> 33, pmPct |-> 33]

\* ------------------------------------------------------------------------
\* C2
\* ------------------------------------------------------------------------

\* seedDemo has been called: its batch writes every field of the Day
Seeded == \E d \in CallIds : IsOp(d, "seedDemo")

\* no other call writes the cell of call c
OnlyWriterOfCell(c) ==
  /\ \A d \in CallIds \ {c} : ~(IsOp(d, "saveMatrixCell") /\ CellOf(d) = CellOf(c))
  /\ ~Seeded

\* C2: after saveMatrixCell(.., p, g, v) completes, the Day exists and holds
\* v at the nested location matrix[p][g], the one recalculateDayTotals reads,
\* until another write to that cell.
C2_CellAtNestedLocation ==
  \A c \in CallIds :
    (IsOp(c, "saveMatrixCell") /\ Done(c) /\ OnlyWriterOfCell(c)) =>
      (day.exists /\ day.matrix[CellOf(c)] = calls[c].value)

\* ------------------------------------------------------------------------
\* C3
\* ------------------------------------------------------------------------

\* call c appends its audit entry in this step
AuditsNow(c) ==
  /\ ~InList(calls[c].effects, "audit")
  /\ InList(calls'[c].effects, "audit")

\* C3: within one saveMatrixCell invocation the audit entry is appended only
\* after the cell write and the totals recomputation of that invocation:
\* when the call appends its entry, its store writes so far are the cell
\* write and then the totals write (the cell write alone when the aggregator
\* found no Plan), the recomputation has returned, and the entry is the
\* last effect of the call.
C3_AuditAfterCellAndTotals ==
  [][\A c \in CallIds :
       (IsOp(c, "saveMatrixCell") /\ AuditsNow(c)) =>
         /\ calls[c].effects =
              IF calls[c].planDoc.exists THEN <<"setCell", "totals">>
              ELSE <<"setCell">>
         /\ calls[c].stmt = Len(SaveMatrixCellSteps)
         /\ calls'[c].effects = Append(calls[c].effects, "audit")
         /\ Done(c)'
         /\ day.exists
    ]_vars

C3_Witness ==
  \E c \in CallIds :
    /\ IsOp(c, "saveMatrixCell") /\ Done(c)
    /\ calls[c].effects = <<"setCell", "totals", "audit">>
    /\ Len(auditLog) = 1 /\ auditLog[1].action = "matrix_cell_update"

\* ------------------------------------------------------------------------
\* C4
\* ------------------------------------------------------------------------

\* the calls of an operation that completed successfully
Successful(op) == {c \in CallIds : IsOp(c, op) /\ Done(c)}

\* C4: for saveMatrixCell, saveComment and logCustomIncident the number of
\* audit entries tagged matrix_cell_update, comment_save and incident_log
\* equals the number of calls of the operation that completed successfully.
C4_OneAuditEntryPerSuccessfulCall ==
  /\ Cardinality(Tagged("matrix_cell_update")) = Cardinality(Successful("saveMatrixCell"))
  /\ Cardinality(Tagged("comment_save")) = Cardinality(Successful("saveComment"))
  /\ Cardinality(Tagged("incident_log")) = Cardinality(Successful("logCustomIncident"))

\* a successful saveComment beside a logCustomIncident whose audit failed
C4_Witness ==
  /\ \E c \in CallIds : IsOp(c, "saveComment") /\ Done(c)
  /\ \E c \in CallIds : /\ IsOp(c, "logCustomIncident")
                        /\ calls[c].status = "rejected"
                        /\ calls[c].effects = <<"incidents">>
  /\ Len(auditLog) = 1 /\ auditLog[1].action = "comment_save"

\* ------------------------------------------------------------------------
\* C5
\* ------------------------------------------------------------------------

\* the functions under the header WRITERS of data.js
Writers == {"saveMatrixCell", "saveComment", "logCustomIncident", "setTheme"}

\* C5: every writer that completes successfully, setTheme included, has
\* appended an audit entry.
C5_EveryWriterAudits ==
  \A c \in CallIds :
    (calls[c].op \in Writers /\ Done(c)) => InList(calls[c].effects, "audit")

\* ------------------------------------------------------------------------
\* C6
\* ------------------------------------------------------------------------

\* the store failed the totals recomputation or the audit append of call c
\* after its cell write
FailedAfterCellWrite(c) ==
  /\ IsOp(c, "saveMatrixCell")
  /\ calls[c].error # ""
  /\ InList(calls[c].effects, "setCell")

\* a later step of call c fails in this step, after its cell write
FailsNowAfterCellWrite(c) ==
  /\ IsOp(c, "saveMatrixCell")
  /\ InList(calls[c].effects, "setCell")
  /\ calls[c].error = "" /\ calls'[c].error # ""

\* another call than c writes the store in this step
OtherCallWrites(c) ==
  \E d \in CallIds \ {c} : calls'[d].effects # calls[d].effects

\* C6: when the cell write of a saveMatrixCell call succeeded and a later
\* step of the call fails, the call is rejected and the failing step leaves
\* the Day as it is; from then on the call takes no step, and the Day
\* exists and holds the written value until another call writes the Day.
C6_CellKeptAndCallRejected ==
  [][\A c \in CallIds :
       /\ FailsNowAfterCellWrite(c) =>
            /\ calls'[c].status = "rejected"
            /\ day' = day
            /\ day.exists
       /\ FailedAfterCellWrite(c) =>
            /\ calls[c].status = "rejected"
            /\ calls'[c] = calls[c]
            /\ day'.exists
            /\ day'.literal[CellOf(c)] # day.literal[CellOf(c)] => OtherCallWrites(c)
    ]_vars

\* the audit append failed after the cell and the totals were written
C6_Witness ==
  \E c \in CallIds :
    /\ FailedAfterCellWrite(c)
    /\ calls[c].effects = <<"setCell", "totals">>
    /\ calls[c].error = "unavailable"
    /\ day.literal[CellOf(c)] = calls[c].value

\* ------------------------------------------------------------------------
\* C7
\* ------------------------------------------------------------------------

\* C7: once two saveMatrixCell calls on different cells have both completed,
\* the matrix holds both values and the stored totals are the aggregate of a
\* matrix that contains both.
C7_DisjointCellsBothSurvive ==
  \A c, d \in CallIds :
    (/\ c # d /\ Quiescent
     /\ IsOp(c, "saveMatrixCell") /\ Done(c)
     /\ IsOp(d, "saveMatrixCell") /\ Done(d)
     /\ CellOf(c) # CellOf(d)
     /\ OnlyWriterOfCell(c) /\ OnlyWriterOfCell(d)) =>
      /\ day.matrix[CellOf(c)] = calls[c].value
      /\ day.matrix[CellOf(d)] = calls[d].value
      /\ plan.exists =>
           day.totals = RefTotals(plan, [day.matrix EXCEPT ![CellOf(c)] = calls[c].value,
                                                           ![CellOf(d)] = calls[d].value])

\* ------------------------------------------------------------------------
\* C8
\* ------------------------------------------------------------------------

\* C8: once two saveMatrixCell calls on the same cell have both completed,
\* the cell holds the value of the write that landed last (the one the store
\* keeps in the field the two writes went to) and the stored totals are the
\* aggregate computed with that value.
C8_SameCellLastWriteWins ==
  \A c, d \in CallIds :
    (/\ c # d /\ Quiescent
     /\ IsOp(c, "saveMatrixCell") /\ Done(c)
     /\ IsOp(d, "saveMatrixCell") /\ Done(d)
     /\ CellOf(c) = CellOf(d)
     /\ ~Seeded) =>
      /\ day.literal[CellOf(c)] \in {calls[c].value, calls[d].value}
      /\ day.matrix[CellOf(c)] = day.literal[CellOf(c)]
      /\ plan.exists =>
           day.totals = RefTotals(plan, [day.matrix EXCEPT
                                           ![CellOf(c)] = day.literal[CellOf(c)]])

\* ------------------------------------------------------------------------
\* C9
\* ------------------------------------------------------------------------

\* call c has written the incident list
WroteIncidents(c) ==
  IsOp(c, "logCustomIncident") /\ InList(calls[c].effects, "incidents")

\* C9: logCustomIncident writes back the list it read: of two calls that
\* both wrote the list and of which neither had read the other's incident,
\* the Day's list never holds both incidents.
C9_ReadThenWriteLosesAppend ==
  \A c, d \in CallIds :
    (/\ c # d /\ WroteIncidents(c) /\ WroteIncidents(d)
     /\ ~InList(calls[c].currentIncidents, calls[d].incident)
     /\ ~InList(calls[d].currentIncidents, calls[c].incident)) =>
      ~(InList(day.incidents, calls[c].incident) /\ InList(day.incidents, calls[d].incident))

\* both calls read before either wrote and both completed: one incident is
\* in the list and two incident_log entries are in the audit log
C9_Witness ==
  \E c, d \in CallIds :
    /\ c # d
    /\ IsOp(c, "logCustomIncident") /\ Done(c)
    /\ IsOp(d, "logCustomIncident") /\ Done(d)
    /\ calls[c].currentIncidents = <<>> /\ calls[d].currentIncidents = <<>>
    /\ Len(day.incidents) = 1
    /\ Cardinality(Tagged("incident_log")) = 2

\* ------------------------------------------------------------------------
\* C10
\* ------------------------------------------------------------------------

\* the incident of the completed logCustomIncident call c is element i of the
\* Day's list, fields unchanged
LoggedAt(c, i) ==
  /\ IsOp(c, "logCustomIncident") /\ Done(c)
  /\ i \in 1..Len(day.incidents) /\ day.incidents[i] = calls[c].incident

\* the incident of the call that completed before the session is the first
\* element of the Day's list, fields unchanged
EarlierLogged(d) == Len(d.incidents) >= 1 /\ d.incidents[1] = EarlierCall.incident

\* call c has completed with its incident in the list, no other call is in
\* flight and seedDemo has not been called: every call that takes a step
\* from here on starts afterwards
CompletedBeforeTheRest(c, i) ==
  /\ LoggedAt(c, i)
  /\ \A d \in CallIds \ {c} : ~Running(d)
  /\ ~Seeded

\* C10: once a logCustomIncident call has completed, its incident stays in
\* the Day's list, at its place and with its fields unchanged, in every
\* later state, whatever steps the saveMatrixCell, saveComment and
\* logCustomIncident calls that start afterwards take, overlapping or not;
\* a later logCustomIncident adds its element after it.  Stated for the
\* call that completed before the session, which every call of the session
\* comes after, and for each call of the session from the moment it has
\* completed with no other call in flight.  seedDemo, which puts a new Day
\* in the place of the stored one, is not among the calls of the claim: the
\* statement holds as long as seedDemo has not been called.
C10_IncidentStaysUnderLaterCalls ==
  /\ [][(~Seeded /\ EarlierLogged(day)) => EarlierLogged(day')]_vars
  /\ \A c \in CallIds, i \in 1..(MaxCalls + 1) :
       [](CompletedBeforeTheRest(c, i) => [](Seeded \/ LoggedAt(c, i)))

\* two calls that started after the earlier call completed overlapped (both
\* read the list before either wrote it) and both completed: the earlier
\* incident is still the first element
C10_Witness ==
  \E c, d \in CallIds :
    /\ c # d
    /\ IsOp(c, "logCustomIncident") /\ Done(c)
    /\ IsOp(d, "logCustomIncident") /\ Done(d)
    /\ calls[c].currentIncidents = <<EarlierCall.incident>>
    /\ calls[d].currentIncidents = <<EarlierCall.incident>>
    /\ day.incidents = <<EarlierCall.incident, calls[d].incident>>

\* call c is issued in this step
IssuedNow(c) == calls[c].status = "idle" /\ calls'[c].status = "running"

\* the context call c is issued with is getAuditContext() of this moment
ContextOfTheMoment(c) ==
  /\ calls'[c].ctx.actedBy = auth.currentUser
  /\ IF auth.imitationState # NoImitation
     THEN /\ calls'[c].ctx.asUserId = auth.imitationState.targetUid
          /\ calls'[c].ctx.asRole = auth.imitationState.asRole
     ELSE calls'[c].ctx.asUserId = auth.currentUser

\* call c appends one entry that carries the three fields of its ctx
AppendsItsContext(c) ==
  /\ Cur(c) = "audit"
  /\ Len(auditLog') = Len(auditLog) + 1
  /\ SubSeq(auditLog', 1, Len(auditLog)) = auditLog
  /\ auditLog'[Len(auditLog')].actedBy = calls[c].ctx.actedBy
  /\ auditLog'[Len(auditLog')].asRole = calls[c].ctx.asRole
  /\ auditLog'[Len(auditLog')].asUserId = calls[c].ctx.asUserId

\* C11: the context a writer is called with is getAuditContext() of the
\* moment of the call: actedBy is the signed-in user; while an imitation is
\* active asUserId is the imitated user and asRole the imitated role, and
\* while none is active asUserId is the signed-in user too.  The writer
\* appends an entry that carries the three fields of its ctx as they were
\* passed, and the entries before it stay as they are.
C11_AuditContextKeepsIdentitiesApart ==
  [][(\A c \in CallIds : IssuedNow(c) => ContextOfTheMoment(c))
     /\ (auditLog' # auditLog => \E c \in CallIds : AppendsItsContext(c))]_vars

\* an administrator imitating the teacher has saved, and the entry names
\* both of them
C11_Witness ==
  /\ auth.currentUser = "u2"
  /\ auth.imitationState \in Imitations
  /\ \E c \in CallIds :
       /\ Done(c)
       /\ calls[c].ctx = [actedBy |-> "u2", asRole |-> "teacher", asUserId |-> "u1"]
  /\ \E i \in 1..Len(auditLog) :
       /\ auditLog[i].actedBy = "u2"
       /\ auditLog[i].asUserId = "u1"
       /\ auditLog[i].asRole = "teacher"

\* recalculateDayTotals of call c has run its loops and awaits updateDoc
LoopsDone(c) == Running(c) /\ calls[c].sub = "updateDoc"

\* some call has written the totals
TotalsWritten == \E c \in CallIds : InList(calls[c].effects, "totals")

\* the checkbox cells of matrix m that hold true, and that are unset
CheckedPeriods(m) == {p \in PeriodIds : m[<<p, "G2">>] = "true"}
UnsetPeriods(m) == {p \in PeriodIds : m[<<p, "G2">>] \in {Absent, Null}}

\* C12: the earned and possible sums recalculateDayTotals accumulates from a
\* plan and a matrix equal the reference sums over the (period, goal) pairs
\* whose cell is present and not null: a stepper cell counts its numeric
\* value of 2, a checkbox cell 1 of 1 when truthy and 0 of 1 otherwise, an
\* unset cell nothing, for the whole day and for its two halves.  So one
\* checkbox goal that is true on half of the periods and unset on the
\* others gives pct = 100.
C12_SumsMatchReference ==
  /\ \A c \in CallIds :
       LoopsDone(c) =>
         /\ calls[c].acc.totalPoints = RefEarned(calls[c].planDoc, calls[c].matrix, "all")
         /\ calls[c].acc.totalPossible = RefPossible(calls[c].planDoc, calls[c].matrix, "all")
         /\ calls[c].acc.amPoints = RefEarned(calls[c].planDoc, calls[c].matrix, "am")
         /\ calls[c].acc.amPossible = RefPossible(calls[c].planDoc, calls[c].matrix, "am")
         /\ calls[c].acc.pmPoints = RefEarned(calls[c].planDoc, calls[c].matrix, "pm")
         /\ calls[c].acc.pmPossible = RefPossible(calls[c].planDoc, calls[c].matrix, "pm")
  /\ (/\ TotalsWritten
      /\ plan = PlanCheckbox
      /\ Cardinality(CheckedPeriods(day.matrix)) = 1
      /\ Cardinality(UnsetPeriods(day.matrix)) = 1) => day.totals.pct = 100

\* the checkbox goal is true in the morning and unset in the afternoon, and
\* the totals written are 100
C12_Witness ==
  /\ TotalsWritten
  /\ plan = PlanCheckbox
  /\ day.matrix[<<"P1", "G2">>] = "true"
  /\ day.matrix[<<"P2", "G2">>] = Absent
  /\ day.totals.pct = 100

\* C13: every percentage recalculateDayTotals writes is 0 when nothing is
\* possible and otherwise 100 * earned / possible rounded to the nearest
\* integer with ties rounded up (1 of 3 gives 33, 1 of 8 gives 13).
C13_PercentagesRoundHalfUp ==
  TotalsWritten =>
    /\ day.totals.pct = RefPct(RefEarned(plan, day.matrix, "all"),
                               RefPossible(plan, day.matrix, "all"))
    /\ IncludesAMPM(plan.planType) =>
         /\ day.totals.amPct = RefPct(RefEarned(plan, day.matrix, "am"),
                                      RefPossible(plan, day.matrix, "am"))
         /\ day.totals.pmPct = RefPct(RefEarned(plan, day.matrix, "pm"),
                                      RefPossible(plan, day.matrix, "pm"))

\* the cells of the periods of plan p that are, or are not, of the morning
HalfCells(p, am) ==
  {<<p.schedule[i].id, p.goals[j].id>> :
     i \in {k \in 1..Len(p.schedule) : p.schedule[k].am = am}, j \in 1..Len(p.goals)}

\* C14: for a plan whose type includes the AM/PM split amPct is the
\* percentage of the cells of the morning periods and pmPct that of the
\* other periods: putting any value in any one afternoon cell leaves amPct
\* as it is, and putting any value in a morning cell leaves pmPct as it is.
\* For a plan without the split the totals carry pct only.
C14_HalvesAreIndependent ==
  TotalsWritten =>
    IF IncludesAMPM(plan.planType)
    THEN /\ day.totals.amPct = Pct(RefEarned(plan, day.matrix, "am"),
                                   RefPossible(plan, day.matrix, "am"))
         /\ day.totals.pmPct = Pct(RefEarned(plan, day.matrix, "pm"),
                                   RefPossible(plan, day.matrix, "pm"))
         /\ \A cell \in HalfCells(plan, FALSE), v \in CellValues :
              ComputeTotals(plan, [day.matrix EXCEPT ![cell] = v]).amPct
                = day.totals.amPct
         /\ \A cell \in HalfCells(plan, TRUE), v \in CellValues :
              ComputeTotals(plan, [day.matrix EXCEPT ![cell] = v]).pmPct
                = day.totals.pmPct
    ELSE day.totals.amPct = NoPct /\ day.totals.pmPct = NoPct

\* a split plan whose morning is perfect and whose afternoon earned nothing
C14_Witness ==
  /\ TotalsWritten
  /\ IncludesAMPM(plan.planType)
  /\ day.totals.amPct = 100
  /\ day.totals.pmPct = 0
  /\ RefPossible(plan, day.matrix, "pm") > 0

\* the writers of a Day
DayWriters == {"saveMatrixCell", "saveComment", "logCustomIncident"}

\* call c has settled and the store never failed it
SettledUnfailed(c) ==
  /\ calls[c].op \in DayWriters
  /\ calls[c].status \in {"done", "rejected"}
  /\ calls[c].error # "unavailable"

\* C15: a Day is created by the first write to it: a call of saveMatrixCell,
\* saveComment or logCustomIncident that the store does not fail succeeds
\* whether or not the Day exists, leaves the Day in existence and has
\* appended its audit entry.
C15_FirstWriteCreatesDay ==
  \A c \in CallIds :
    SettledUnfailed(c) =>
      /\ Done(c)
      /\ day.exists
      /\ InList(calls[c].effects, "audit")

\* call c of saveComment performs its write in this step
CommentWritten(c) ==
  /\ Cur(c) = "updateComment"
  /\ InList(calls'[c].effects, "comment")

\* call c of saveComment appends its audit entry in this step
CommentAudited(c) ==
  /\ IsOp(c, "saveComment")
  /\ Cur(c) = "audit"
  /\ InList(calls'[c].effects, "audit")

\* C16: the write of saveComment puts the text in comments.teacher when the
\* role is 'teacher' and in comments.specials[role] otherwise and leaves
\* every other comment slot, and every other field but lastModified, as it
\* was; the audit entry of saveComment is tagged comment_save and its
\* details are the role and the length of the text and nothing else.
C16_CommentSlotAndAuditDetails ==
  [][\A c \in CallIds :
       /\ CommentWritten(c) =>
            day' = [day EXCEPT
                      !.comments =
                         IF calls[c].role = "teacher"
                         THEN [@ EXCEPT !.teacher = calls[c].text]
                         ELSE [@ EXCEPT !.specials =
                                 [s \in Subjects |->
                                    IF s = calls[c].role THEN calls[c].text ELSE @[s]]],
                      !.lastModified = ServerTimestamp]
       /\ CommentAudited(c) =>
            /\ Len(auditLog') = Len(auditLog) + 1
            /\ auditLog'[Len(auditLog')].action = "comment_save"
            /\ DOMAIN auditLog'[Len(auditLog')].details = {"role", "textLength"}
            /\ auditLog'[Len(auditLog')].details.role = calls[c].role
            /\ auditLog'[Len(auditLog')].details.textLength = Len(calls[c].text)
    ]_vars

\* a teacher comment has been saved and audited: the specials slot is
\* untouched and the entry holds the length 2 of the text "ok"
C16_Witness ==
  /\ \E c \in CallIds :
       Done(c) /\ IsOp(c, "saveComment") /\ calls[c].role = "teacher"
               /\ calls[c].text = "ok"
  /\ day.comments.teacher = "ok"
  /\ day.comments.specials["art"] = Absent
  /\ \E i \in Tagged("comment_save") :
       auditLog[i].details = [role |-> "teacher", textLength |-> 2]

\* calls c and d were made with the same arguments
SameArguments(c, d) ==
  /\ calls[c].op = calls[d].op
  /\ calls[c].periodId = calls[d].periodId
  /\ calls[c].goalId = calls[d].goalId
  /\ calls[c].value = calls[d].value
  /\ calls[c].role = calls[d].role
  /\ calls[c].text = calls[d].text
  /\ calls[c].button = calls[d].button
  /\ calls[c].note = calls[d].note
  /\ calls[c].source = calls[d].source

\* call c repeats the call before it, which has completed
IsReplay(c) ==
  IF c = 1 THEN FALSE
  ELSE Done(c - 1) /\ Running(c) /\ SameArguments(c, c - 1)

\* C17: when calls do not overlap (SpecSeq), no step of a call of
\* saveMatrixCell or saveComment that repeats the completed call before it
\* changes the cells, the totals or the comments of the Day, so the Day is
\* after the second call as it was after the first; a repeated
\* logCustomIncident writes a list that is one incident longer.
C17_ReplayIsIdempotentButForIncidents ==
  [][\A c \in CallIds :
       IsReplay(c) =>
         /\ calls[c].op \in {"saveMatrixCell", "saveComment"} =>
              /\ day'.matrix = day.matrix
              /\ day'.literal = day.literal
              /\ day'.totals = day.totals
              /\ day'.comments = day.comments
         /\ (Cur(c) = "setIncidents" /\ InList(calls'[c].effects, "incidents")) =>
              Len(day'.incidents) = Len(day.incidents) + 1
    ]_vars

\* logCustomIncident has been called twice with the same arguments and the
\* Day holds two incidents
C17_Witness ==
  /\ Done(1) /\ Done(2)
  /\ SameArguments(1, 2)
  /\ IsOp(1, "logCustomIncident")
  /\ Len(day.incidents) = 2

\* call k of setCustomClaims has been made
Called(k) == cloud.fn[k].status # "idle"

\* call k was rejected by a check, before the first await
RejectedUntouched(k, code) ==
  /\ cloud.fn[k].status = "rejected"
  /\ cloud.fn[k].error = code
  /\ cloud.fn[k].effects = <<>>

\* C18: setCustomClaims is for administrators only: a call by a signed-in
\* caller whose token does not carry the admin role is rejected with
\* permission-denied and performs neither setCustomUserClaims nor the
\* Staff write.
C18_OnlyAdminsSetClaims ==
  \A k \in FnIds :
    (Called(k) /\ cloud.fn[k].caller.authed /\ ~IsAdmin(cloud.fn[k].caller)) =>
      RejectedUntouched(k, "permission-denied")

\* the data lacks uid, lacks schoolId, or its roles is not an array
BadData(data) ==
  \/ data.uid = Absent
  \/ data.roles.kind # "array"
  \/ data.schoolId = Absent

\* C19 as stated: a call whose data lacks uid or schoolId, or whose roles
\* is not an array, is rejected with invalid-argument, and neither
\* setCustomUserClaims nor the Staff write is performed.
C19_BadDataIsInvalidArgument ==
  \A k \in FnIds :
    (Called(k) /\ BadData(cloud.fn[k].data)) =>
      RejectedUntouched(k, "invalid-argument")

\* C19, amended: a call whose data lacks uid or schoolId, or whose roles is
\* not an array, is rejected before any mutation: neither
\* setCustomUserClaims nor the Staff write is performed.  The code is
\* invalid-argument when the caller passes the checks made before the data
\* is looked at; an unauthenticated caller gets unauthenticated and a
\* caller whose token has roles without admin gets permission-denied.
C19_BadDataRejectedBeforeMutation ==
  \A k \in FnIds :
    (Called(k) /\ BadData(cloud.fn[k].data)) =>
      RejectedUntouched(k,
        IF ~cloud.fn[k].caller.authed THEN "unauthenticated"
        ELSE IF cloud.fn[k].caller.roles.kind = "absent" \/ IsAdmin(cloud.fn[k].caller)
             THEN "invalid-argument"
             ELSE "permission-denied")

\* an administrator's call without schoolId has been rejected with
\* invalid-argument
C19_Witness ==
  \E k \in FnIds :
    /\ IsAdmin(cloud.fn[k].caller)
    /\ cloud.fn[k].data.uid = "u1"
    /\ cloud.fn[k].data.roles.kind = "array"
    /\ cloud.fn[k].data.schoolId = Absent
    /\ RejectedUntouched(k, "invalid-argument")

\* this step is a run of syncStaffClaims for the i-th waiting change that
\* the Auth service did not fail
SyncRan(i) ==
  /\ Len(cloud'.triggers) < Len(cloud.triggers)
  /\ cloud'.triggers = RemoveAt(cloud.triggers, i)
  /\ cloud'.lastSync # "failed"

\* the Staff document was created, or its roles or schoolId differ from
\* the revision before
ClaimsDue(ch) ==
  /\ ch.after.exists
  /\ \/ ~ch.before.exists
     \/ ch.before.roles # ch.after.roles
     \/ ch.before.schoolId # ch.after.schoolId

\* C20: a run of syncStaffClaims calls setCustomUserClaims exactly when the
\* Staff document was created or its roles or schoolId differ from the
\* prior revision; an update that changes neither and a delete perform no
\* claims write.
C20_ClaimsReissuedExactlyOnChange ==
  [][\A i \in 1..Len(cloud.triggers) :
       SyncRan(i) => (cloud'.lastSync = "wrote" <=> ClaimsDue(cloud.triggers[i]))
    ]_vars

\* every triggered run of syncStaffClaims has been executed
AllSyncsRan == cloud.triggers = <<>>

\* C21: when the writes to a user's Staff document have stopped and every
\* triggered run of syncStaffClaims has executed and completed without
\* error, in whatever order, the user's claims carry the roles stored in
\* the Staff document (and keep them: nothing is left to run).
C21_ClaimsConvergeToStaff ==
  \A u \in Users :
    (AllSyncsRan /\ cloud.staff[u].exists) =>
      /\ cloud.claims[u].set
      /\ cloud.claims[u].roles = RolesOrEmpty(cloud.staff[u])

\* the store writes of a call, in the order of its statements
WritesOf(op) ==
  CASE op = "saveMatrixCell" -> <<"setCell", "totals", "audit">>
    [] op = "saveComment" -> <<"comment", "audit">>
    [] op = "logCustomIncident" -> <<"incidents", "audit">>
    [] OTHER -> <<>>

\* each write of the list is one of the op's writes, none twice, and a
\* write is there only when the Day write before it is
WritesOnceInOrder(op, effects) ==
  /\ \A i \in 1..Len(effects) : InList(WritesOf(op), effects[i])
  /\ \A i, j \in 1..Len(effects) : effects[i] = effects[j] => i = j
  /\ effects # <<>> => effects[1] = WritesOf(op)[1]

Failed(call) == call.error # ""

\* what a step leaves of call c when an awaited store operation of c has
\* thrown, in this step or before
FailureRejects(c) ==
  Failed(calls'[c]) =>
    /\ calls'[c].status = "rejected"
    /\ calls'[c].effects = calls[c].effects
    /\ ~InList(calls'[c].effects, "audit")
    /\ Failed(calls[c]) => calls'[c] = calls[c]
    /\ ~Failed(calls[c]) => day' = day /\ auditLog' = auditLog

\* C22: a store failure in a step of saveMatrixCell, saveComment or
\* logCustomIncident rejects the call; the failing step writes nothing, the
\* call takes no further step, so a call whose Day write failed has written
\* neither totals nor an audit entry, a failed call has no audit entry, and
\* every call performs each of its store writes at most once; the audit log
\* holds one entry per call that performed its audit write.
C22_FailureRejectsAndSkipsTheRest ==
  [][\A c \in CallIds :
       calls'[c].op \in DayWriters =>
         /\ FailureRejects(c)
         /\ WritesOnceInOrder(calls'[c].op, calls'[c].effects)
         /\ Len(auditLog') =
              Cardinality({d \in CallIds : InList(calls'[d].effects, "audit")})
    ]_vars

\* a saveMatrixCell call was rejected by a store failure after its cell
\* write, and a saveComment call by a store failure at its Day write
C22_Witness ==
  \E c, d \in CallIds :
    /\ IsOp(c, "saveMatrixCell")
    /\ calls[c].status = "rejected"
    /\ calls[c].error = "unavailable"
    /\ calls[c].effects = <<"setCell">>
    /\ IsOp(d, "saveComment")
    /\ calls[d].status = "rejected"
    /\ calls[d].effects = <<>>

\* C23: the audit log is append-only: every step of every operation of
\* data.js leaves the entries already in the log where they are and as they
\* were first written; the log only grows.
C23_AuditLogAppendOnly ==
  [][/\ Len(auditLog') >= Len(auditLog)
     /\ \A i \in 1..Len(auditLog) : auditLog'[i] = auditLog[i]
    ]_vars

\* two calls have written their audit entries, different ones
C23_Witness ==
  /\ Len(auditLog) = 2
  /\ auditLog[1] # auditLog[2]
  /\ \A c \in CallIds : Done(c)

\* C24: a startImitate call made while the current claims do not include
\* the admin role leaves the imitation state and the stored 'imitation'
\* entry as they were and dispatches no event; a call made by an admin sets
\* both to {targetUid, asRole} and dispatches imitation-active.
C24_OnlyAdminsStartImitation ==
  [][\A im \in Imitations :
       StartImitate(im) =>
         IF HasAdmin(auth.currentClaims)
         THEN /\ auth'.imitationState = im
              /\ auth'.stored = im
              /\ auth'.lastEvent = "imitation-active"
         ELSE /\ auth'.imitationState = auth.imitationState
              /\ auth'.stored = auth.stored
              /\ auth'.lastEvent = auth.lastEvent
    ]_vars

\* a teacher's call was refused on this page and nothing is imitated
C24_Witness ==
  /\ auth.console = "[Auth] Only admins can imitate"
  /\ auth.currentUser = "u1"
  /\ auth.currentClaims = TokenClaims("u1")
  /\ auth.imitationState = NoImitation
  /\ auth.stored = NoImitation
  /\ auth.lastEvent = NoEvent

\* the guard's condition on the memory cache a
Passes(a, required) ==
  /\ a.currentUser # NoUser
  /\ \/ required = <<>>
     \/ \E i \in 1..Len(required) : InList(a.currentClaims.roles, required[i])

\* call k of guardRoute returns in this step
GuardReturns(k) ==
  /\ k \in 1..Len(auth.guards)
  /\ auth.guards[k].at \in {"roles", "catch"}
  /\ Len(auth'.guards) >= k
  /\ auth'.guards[k].at = "returned"

\* C25: a guardRoute(requiredRoles) call that returns sets data-app-ready
\* only if a user is cached and requiredRoles is empty or the cached claims
\* hold one of the required roles; in every other case it sets the location
\* to the login page and the attribute is absent when it returns; nothing
\* but a returning guardRoute call sets the attribute.
C25_GuardMarksReadyOnlyForAllowedUser ==
  [][/\ \A k \in 1..MaxGuardCalls :
          GuardReturns(k) =>
            /\ auth.authReady
            /\ IF Passes(auth, auth.guards[k].required)
               THEN auth'.appReady
               ELSE ~auth'.appReady /\ auth'.location = LoginPage
     /\ (auth'.appReady /\ ~auth.appReady) =>
          \E k \in 1..MaxGuardCalls : GuardReturns(k)
    ]_vars

ImitationActive == auth.imitationState # NoImitation

\* C26: in every state of the auth module, an active imitation state
\* implies that the claims of the signed-in user include the admin role.
C26_ImitationOnlyUnderAdmin ==
  ImitationActive =>
    /\ auth.currentUser # NoUser
    /\ HasAdmin(auth.currentClaims)

NoImitationLeft(a) == a.imitationState = NoImitation /\ a.stored = NoImitation

\* the listener is called with no user in this step
ListenerCalledWithNull ==
  /\ auth.events # <<>>
  /\ Head(auth.events) = NoUser
  /\ ListenerCalled

\* C27: signOutUser, and every call of the listener with no user, leaves the
\* imitation state null and the stored 'imitation' entry removed; from then
\* on only a startImitate call brings either back, and an audit context
\* built while no imitation is active has actedBy equal to asUserId.
C27_SignOutEndsImitation ==
  [][/\ (SignOutUser \/ ListenerCalledWithNull) => NoImitationLeft(auth')
     /\ (NoImitationLeft(auth) /\ ~NoImitationLeft(auth')) =>
          \E im \in Imitations : StartImitate(im)
     /\ \A c \in CallIds :
          (IssuedNow(c) /\ ~ImitationActive) =>
            /\ calls'[c].ctx.actedBy = auth.currentUser
            /\ calls'[c].ctx.asUserId = calls'[c].ctx.actedBy
    ]_vars

\* after a sign-out and the next sign-in, a writer was called with the
\* context of the signed-in user alone
C27_Witness ==
  /\ auth.ops = 2
  /\ auth.lastEvent = "imitation-stopped"
  /\ auth.currentUser = "u2"
  /\ NoImitationLeft(auth)
  /\ calls[1].status # "idle"
  /\ calls[1].ctx.actedBy = "u2"
  /\ calls[1].ctx.asUserId = "u2"

\* call k of getSchoolContext returns a context in this step
ContextReturned(k) ==
  /\ k \in 1..Len(auth'.ctxCalls)
  /\ auth'.ctxCalls[k].status = "returned"
  /\ \/ k > Len(auth.ctxCalls)
     \/ auth.ctxCalls[k].status = "reading"

\* C28: the context a getSchoolContext call returns holds the user that is
\* signed in when it returns, and that user's claims.
C28_ContextOfCurrentUser ==
  [][\A k \in 1..MaxCtxCalls :
       ContextReturned(k) =>
         /\ auth'.ctxCalls[k].returned.user = auth'.currentUser
         /\ auth'.ctxCalls[k].returned.claims = auth'.currentClaims
    ]_vars

\* C29: in every state the cached claims are null or the claims of the
\* cached user, also while the listener awaits the token result after a
\* change from one signed-in user to another.
C29_ClaimsBelongToCurrentUser ==
  \/ auth.currentClaims.isNull
  \/ /\ auth.currentUser # NoUser
     /\ auth.currentClaims = TokenClaims(auth.currentUser)

\* a triggered run of syncStaffClaims executes in this step, to its end or
\* to its catch
RunExecutes == \E i \in 1..Len(cloud.triggers) : SyncStaffClaims(i) \/ SyncFails(i)

\* setCustomClaims performs its write of the Staff document in this step
StaffWrittenNow ==
  \E k \in FnIds :
    /\ ~InList(cloud.fn[k].effects, "staff")
    /\ InList(cloud'.fn[k].effects, "staff")

\* C30: a run of syncStaffClaims writes no Staff document and triggers no
\* run: it leaves the Staff documents as they are and one run fewer to
\* execute; a run is triggered exactly by a write of a Staff document, one
\* run per write, so the runs that follow a write come to an end.
C30_SyncTriggersNoSync ==
  [][/\ RunExecutes =>
          /\ cloud'.staff = cloud.staff
          /\ Len(cloud'.triggers) = Len(cloud.triggers) - 1
     /\ StaffWrittenNow <=> Len(cloud'.triggers) = Len(cloud.triggers) + 1
     /\ cloud'.staff # cloud.staff => StaffWrittenNow
     /\ Len(cloud'.triggers) <= Len(cloud.triggers) + 1
    ]_vars

\* setCustomClaims has written the Staff document, the run it triggered
\* has set the claims, and no run is left
C30_Witness ==
  /\ \E k \in FnIds : cloud.fn[k].status = "done" /\ InList(cloud.fn[k].effects, "staff")
  /\ cloud.lastSync = "wrote"
  /\ AllSyncsRan

\* what call c of saveMatrixCell has come to when the Plan is missing: it
\* has written no totals, nothing but a failing store has rejected it, and
\* once it has completed it has written its cell and its audit entry
WithoutPlan(c) ==
  /\ ~InList(calls[c].effects, "totals")
  /\ calls[c].error \in {"", "unavailable"}
  /\ Done(c) =>
       /\ calls[c].effects = <<"setCell", "audit">>
       /\ \E i \in 1..Len(auditLog) :
            /\ auditLog[i].action = "matrix_cell_update"
            /\ auditLog[i].details.periodId = calls[c].periodId
            /\ auditLog[i].details.goalId = calls[c].goalId
            /\ auditLog[i].details.value = calls[c].value

\* C31: when the Plan document does not exist, recalculateDayTotals returns
\* without writing totals and without raising: a saveMatrixCell call whose
\* store operations succeed completes with its cell write and its audit
\* entry, and every step that leaves the Plan missing leaves the Day's
\* totals as they were (absent for a Day the call created).
C31_MissingPlanSkipsTotals ==
  [][(~plan.exists /\ ~plan'.exists) =>
       /\ day'.totals = day.totals
       /\ \A c \in CallIds : calls'[c].op = "saveMatrixCell" => WithoutPlan(c)'
    ]_vars

\* without a Plan a saveMatrixCell call created the Day, completed and
\* audited; the Day has no totals
C31_Witness ==
  /\ ~plan.exists
  /\ day.exists
  /\ day.totals = NoTotals
  /\ \E c \in CallIds :
       /\ IsOp(c, "saveMatrixCell") /\ Done(c)
       /\ calls[c].effects = <<"setCell", "audit">>
  /\ Len(auditLog) >= 1

\* call c performs the write named effect in this step
Writes(c, effect) ==
  /\ ~InList(calls[c].effects, effect)
  /\ InList(calls'[c].effects, effect)

\* Day d with the fields a cell write may change blanked out: the cell at
\* Matrix[period][goal], lastModified, and the existence of the document
ButCell(d, cell) ==
  [d EXCEPT !.exists = TRUE, !.matrix[cell] = Absent, !.lastModified = Absent]

ButTotals(d) == [d EXCEPT !.totals = NoTotals]

ButComment(d, role) ==
  IF role = "teacher"
  THEN [d EXCEPT !.comments.teacher = "", !.lastModified = Absent]
  ELSE [d EXCEPT !.comments.specials[role] = "", !.lastModified = Absent]

ButIncidents(d) ==
  [d EXCEPT !.exists = TRUE, !.incidents = <<>>, !.lastModified = Absent]

\* each write of a pipeline operation changes only its own fields of the Day
WritesOwnFieldsOnly(c) ==
  /\ Writes(c, "setCell") => ButCell(day', CellOf(c)) = ButCell(day, CellOf(c))
  /\ Writes(c, "totals") => ButTotals(day') = ButTotals(day)
  /\ Writes(c, "comment") => ButComment(day', calls[c].role) = ButComment(day, calls[c].role)
  /\ Writes(c, "incidents") => ButIncidents(day') = ButIncidents(day)

\* the comment slot saveComment call c addresses
SlotOf(d, c) ==
  IF calls[c].role = "teacher" THEN d.comments.teacher
  ELSE d.comments.specials[calls[c].role]

\* a logCustomIncident call c and a saveMatrixCell or saveComment call e
\* have both completed: the Day holds the incident and the cell or comment
BothKept(c, e) ==
  (IsOp(c, "logCustomIncident") /\ Done(c) /\ Done(e) /\ ~Seeded) =>
    /\ IsOp(e, "saveMatrixCell") =>
         /\ InList(day.incidents, calls[c].incident)
         /\ day.matrix[CellOf(e)] = calls[e].value
    /\ IsOp(e, "saveComment") =>
         /\ InList(day.incidents, calls[c].incident)
         /\ SlotOf(day, e) = calls[e].text

\* C32: the writes of saveMatrixCell change only the addressed cell, the
\* totals and lastModified, the write of saveComment only the addressed
\* comment slot and lastModified, the write of logCustomIncident only the
\* incident list and lastModified; and however a logCustomIncident call is
\* interleaved with a saveMatrixCell or saveComment call, after both have
\* completed the Day holds the new incident and the written cell or comment.
C32_OperationsKeepEachOthersFields ==
  [][\A c \in CallIds :
       /\ WritesOwnFieldsOnly(c)
       /\ \A e \in CallIds \ {c} : BothKept(c, e)'
    ]_vars

\* every recorded stepper cell of the plan holds 0, 1 or 2 and every
\* recorded checkbox cell a boolean
WellTyped(p, m) ==
  \A i \in 1..Len(p.schedule), j \in 1..Len(p.goals) :
    LET cell == <<p.schedule[i].id, p.goals[j].id>>
        v == IF cell \in DOMAIN m THEN m[cell] ELSE Absent
    IN v \notin {Absent, Null} =>
         /\ p.goals[j].kind = "stepper" => v \in {"0", "1", "2"}
         /\ p.goals[j].kind = "checkbox" => v \in {"true", "false"}

\* C33: when every recorded stepper cell holds 0, 1 or 2 and every recorded
\* checkbox cell a boolean, each percentage recalculateDayTotals writes
\* (pct, and amPct and pmPct for a split plan) is an integer from 0 to 100,
\* and the possible counts of the morning and the afternoon add up to the
\* possible count of the day.
C33_PercentagesWithinRange ==
  /\ (TotalsWritten /\ WellTyped(plan, day.matrix)) =>
       /\ day.totals.pct \in 0..100
       /\ IncludesAMPM(plan.planType) =>
            /\ day.totals.amPct \in 0..100
            /\ day.totals.pmPct \in 0..100
  /\ \A c \in CallIds :
       (LoopsDone(c) /\ WellTyped(calls[c].planDoc, calls[c].matrix)) =>
         calls[c].acc.amPossible + calls[c].acc.pmPossible = calls[c].acc.totalPossible

\* a split plan with all four cells recorded, two of three points earned
\* in each half
C33_Witness ==
  /\ TotalsWritten
  /\ plan = PlanAMPM
  /\ day.matrix[<<"P1", "G1">>] = "2" /\ day.matrix[<<"P1", "G2">>] = "false"
  /\ day.matrix[<<"P2", "G1">>] = "1" /\ day.matrix[<<"P2", "G2">>] = "true"
  /\ day.totals = [pct |-> 67, amPct |-> 67, pmPct |-> 67]

====
